---- MODULE Spec2Model ----
(***************************************************************************)
(* Model of the packet codec (src/core/crypto.py, UniversalPacketParser)   *)
(* and of the capture loop (src/core/packet_interceptor.py).               *)
(*                                                                         *)
(* Byte strings are sequences of 0..255 (1-based here, 0-based in the      *)
(* source: source offset k is index k+1).  Decoded text is a sequence of   *)
(* characters, a character being named by its GBK code: the byte itself    *)
(* for a single-byte character, 256*lead+trail for a double-byte one; a    *)
(* code >= 65536 names a character GBK cannot encode.  Display names and   *)
(* error messages are short ASCII tags of the source's strings.            *)
(***************************************************************************)
EXTENDS Integers, Sequences, FiniteSets, TLC

VARIABLES
    XOR_TABLE_MAP,   \* class dict, insertion ordered: sequence of [code, table]
    FUNCTION_NAMES,  \* class dict: function from codes to display-name tags
    sequence,        \* UniversalPacketParser.sequence
    op,              \* the last call on the parser: its arguments and its outcome
    autoCalls,       \* number of packets emitted so far with the sequence argument omitted
    target_pid,      \* PacketInterceptor.target_pid (NoneInt for None)
    callback,        \* PacketInterceptor.callback: "none", "returns" or "raises"
    running,         \* PacketInterceptor.running
    thread,          \* PacketInterceptor.thread: the last thread started, 0 for None
    loops,           \* the _intercept_loop threads: where each is and the packet it holds
    stats,           \* PacketInterceptor.stats
    cbCalls,         \* per packet pulled, how often the callback was invoked on it
    pulled,          \* how many packets the loops have pulled from the driver
    sent,            \* per packet pulled, how often it was handed back to the driver
    intact,          \* every packet handed back had the payload it was pulled with
    pulledInfo,      \* per packet pulled: its process id, and how often _handle_packet
                     \* and _parse_payload were called on it
    connected,       \* PacketSender.connected
    sock,            \* PacketSender.socket: "none" or "open"
    sendStats,       \* PacketSender.stats: total_sent and total_failed
    history,         \* PacketSender.history
    script_running,  \* PacketSender.script_running
    script_thread,   \* PacketSender.script_thread: the last thread made, 0 for None
    callers,         \* the threads using the sender: the caller's own, then script threads
    apiCalls,        \* how many calls the caller's thread has made on the sender
    lateSteps        \* script steps begun after stop_script() was called on their thread

codecVars == <<XOR_TABLE_MAP, FUNCTION_NAMES, sequence, op, autoCalls>>

captureVars ==
    <<target_pid, callback, running, thread, loops, stats, cbCalls, pulled, sent, intact,
      pulledInfo>>

senderVars ==
    <<connected, sock, sendStats, history, script_running, script_thread, callers,
      apiCalls, lateSteps>>

vars == <<XOR_TABLE_MAP, FUNCTION_NAMES, sequence, op, autoCalls,
          target_pid, callback, running, thread, loops, stats, cbCalls, pulled, sent, intact,
          pulledInfo,
          connected, sock, sendStats, history, script_running, script_thread, callers,
          apiCalls, lateSteps>>

-----------------------------------------------------------------------------
(* Program constants *)

HEADER == 35
TRAILER == 33
FALLBACK == 60
MIN_PACKET_LEN == 19
CORE_LEN == 16
PAD_LEN == 22
EXT_SCORE_END == 24
PLAUSIBLE_LIMIT == 16777215
SEQ_MODULUS == 9
NoneInt == -1

Min(a, b) == IF a < b THEN a ELSE b

IsByte(v) == v \in 0..255

-----------------------------------------------------------------------------
(* Bytes: exclusive or, little-endian unpacking and packing *)

RECURSIVE XorBits(_, _, _)
XorBits(a, b, n) ==
    IF n = 0 THEN 0
    ELSE (((a % 2) + (b % 2)) % 2) + 2 * XorBits(a \div 2, b \div 2, n - 1)

XorNibble == [a \in 0..15 |-> [b \in 0..15 |-> XorBits(a, b, 4)]]

\* Python's a ^ b on two bytes
ByteXor(a, b) == 16 * XorNibble[a \div 16][b \div 16] + XorNibble[a % 16][b % 16]

\* xor_table[i] if i < len(xor_table) else 0x3C   (i is 1-based here)
XorVal(xor_table, i) == IF i <= Len(xor_table) THEN xor_table[i] ELSE FALLBACK

\* the byte the loop appends at position i
XorByte(data, xor_table, i) == ByteXor(data[i], XorVal(xor_table, i))

\* the whole loop: data[i] ^ xor_val for every i
XorAll(data, xor_table) == [i \in 1..Len(data) |-> XorByte(data, xor_table, i)]

\* bytearray.append raises ValueError on a value outside 0..255, and ^ raises
\* TypeError on a non-integer: the loop raises iff it meets such a table entry
XorRaises(data, xor_table) ==
    \E i \in 1..Min(Len(data), Len(xor_table)) : ~IsByte(xor_table[i])

\* struct.unpack('<H', d[off:off+2]) and struct.unpack('<I', d[off:off+4])
UnpackH(d, off) == d[off + 1] + 256 * d[off + 2]

UnpackI(d, off) ==
    d[off + 1] + 256 * d[off + 2] + 65536 * d[off + 3] + 16777216 * d[off + 4]

\* struct.pack('<H', v) and struct.pack('<I', v)
PackH(v) == <<v % 256, (v \div 256) % 256>>

PackI(v) == <<v % 256, (v \div 256) % 256, (v \div 65536) % 256, (v \div 16777216) % 256>>

-----------------------------------------------------------------------------
(* Regional text: bytes.decode('gbk', errors='ignore') and str.encode('gbk') *)

InRange(x, lo, hi) == lo <= x /\ x <= hi

\* the double-byte codes Python's gbk codec assigns a character to
GbkAssigned(l, t) ==
    \/ /\ InRange(l, 129, 160) \/ InRange(l, 176, 214) \/ InRange(l, 216, 247)
       /\ InRange(t, 64, 126) \/ InRange(t, 128, 254)
    \/ l \in {161, 163} /\ InRange(t, 161, 254)
    \/ l = 162 /\ (InRange(t, 161, 170) \/ InRange(t, 177, 226)
                   \/ InRange(t, 229, 238) \/ InRange(t, 241, 252))
    \/ l = 164 /\ InRange(t, 161, 243)
    \/ l = 165 /\ InRange(t, 161, 246)
    \/ l = 166 /\ (InRange(t, 161, 184) \/ InRange(t, 193, 216) \/ InRange(t, 224, 235)
                   \/ InRange(t, 238, 242) \/ InRange(t, 244, 245))
    \/ l = 167 /\ (InRange(t, 161, 193) \/ InRange(t, 209, 241))
    \/ l = 168 /\ (InRange(t, 64, 126) \/ InRange(t, 128, 149) \/ InRange(t, 161, 187)
                   \/ InRange(t, 189, 190) \/ t = 192 \/ InRange(t, 197, 233))
    \/ l = 169 /\ (InRange(t, 64, 87) \/ InRange(t, 89, 90) \/ t = 92
                   \/ InRange(t, 96, 126) \/ InRange(t, 128, 136) \/ t = 150
                   \/ InRange(t, 164, 239))
    \/ (InRange(l, 170, 175) \/ InRange(l, 248, 253))
       /\ (InRange(t, 64, 126) \/ InRange(t, 128, 160))
    \/ l = 215 /\ (InRange(t, 64, 126) \/ InRange(t, 128, 249))
    \/ l = 254 /\ InRange(t, 64, 79)

\* decode with errors='ignore': a byte that starts no character is dropped alone
RECURSIVE GbkDecode(_)
GbkDecode(b) ==
    IF b = <<>> THEN <<>>
    ELSE IF b[1] < 128 THEN <<b[1]>> \o GbkDecode(Tail(b))
    ELSE IF Len(b) >= 2 /\ GbkAssigned(b[1], b[2])
         THEN <<256 * b[1] + b[2]>> \o GbkDecode(Tail(Tail(b)))
    ELSE GbkDecode(Tail(b))

\* str.isprintable() of one decoded character (U+3000, code A1A1, is a separator)
IsPrintable(c) == IF c < 128 THEN InRange(c, 32, 126) ELSE c # 41377

\* ord(c) > 127
IsWide(c) == c > 127

GbkEncodable(c) ==
    \/ InRange(c, 0, 127)
    \/ InRange(c, 256, 65535) /\ GbkAssigned(c \div 256, c % 256)

\* text.encode('gbk') raises UnicodeEncodeError on a character outside GBK
GbkEncodeRaises(text) == \E i \in 1..Len(text) : ~GbkEncodable(text[i])

RECURSIVE GbkEncode(_)
GbkEncode(text) ==
    IF text = <<>> THEN <<>>
    ELSE (IF Head(text) < 128 THEN <<Head(text)>>
          ELSE <<Head(text) \div 256, Head(text) % 256>>) \o GbkEncode(Tail(text))

\* bytes.rstrip(b'\x00')
RECURSIVE RStripZero(_)
RStripZero(b) ==
    IF b = <<>> THEN <<>>
    ELSE IF b[Len(b)] = 0 THEN RStripZero(SubSeq(b, 1, Len(b) - 1))
    ELSE b

KeepChar(c) == IsPrintable(c) \/ IsWide(c)

PrintableCount(text) == Cardinality({i \in 1..Len(text) : IsPrintable(text[i])})

-----------------------------------------------------------------------------
(* The table registry as the class body builds it *)

MOVE_TABLE == <<60, 60, 60, 60, 60, 60, 60, 60, 249, 55, 88, 65, 61, 114, 14, 60>>

ITEM_TABLE ==
    <<15, 136, 125, 60, 60, 60, 60, 60, 210, 63, 112, 106, 98, 112, 104, 60,
      131, 130, 132, 137, 245, 205, 187, 231>>

DIALOG_TABLE ==
    <<106, 38, 80, 60, 60, 60, 60, 60, 170, 47, 48, 82, 64, 108, 116, 60,
      242, 226, 212, 154, 137, 248, 190, 218>>

NPC_CLICK_TABLE ==
    <<60, 198, 248, 119, 63, 76, 60, 60, 206, 63, 63, 110, 60, 108, 60, 60>>

NPC_DIALOG_TABLE ==
    <<60, 198, 248, 119, 63, 76, 60, 60, 207, 63, 63, 111, 60, 108, 60, 60,
      124, 235, 140, 141, 132, 246, 184, 153>>

InitialTableMap ==
    << [code |-> 3011, table |-> MOVE_TABLE],
       [code |-> 3013, table |-> MOVE_TABLE],
       [code |-> 3017, table |-> MOVE_TABLE],
       [code |-> 1006, table |-> ITEM_TABLE],
       [code |-> 5014, table |-> DIALOG_TABLE],
       [code |-> 5015, table |-> DIALOG_TABLE],
       [code |-> 1010, table |-> NPC_CLICK_TABLE],
       [code |-> 1011, table |-> NPC_DIALOG_TABLE] >>

InitialFunctionNames ==
    (3011 :> "move_old") @@ (3013 :> "move_new") @@ (3017 :> "skill")
    @@ (1006 :> "use_item") @@ (5014 :> "item_to_dialog")
    @@ (5015 :> "item_from_dialog") @@ (1010 :> "npc_click") @@ (1011 :> "npc_dialog")

MOVE_CODES == {3011, 3013, 3017}

ITEM_NPC_CODES == {1006, 1010, 1011, 5014, 5015}

\* dict lookups on the ordered registry
Codes(map) == {map[i].code : i \in 1..Len(map)}

IndexOf(map, code) == CHOOSE i \in 1..Len(map) : map[i].code = code

TableOf(map, code) == map[IndexOf(map, code)].table

\* XOR_TABLE_MAP[func_code] = xor_table: a present key keeps its place, a new one goes last
DictSet(map, code, table) ==
    IF code \in Codes(map)
    THEN [map EXCEPT ![IndexOf(map, code)] = [code |-> code, table |-> table]]
    ELSE Append(map, [code |-> code, table |-> table])

\* variant: a missing code falls back to the first registered table
DictGet_Default(map, code) ==
    IF code \in Codes(map) THEN [found |-> TRUE, table |-> TableOf(map, code)]
    ELSE [found |-> TRUE, table |-> map[1].table]

\* XOR_TABLE_MAP.get(func_code): found is FALSE for None
DictGet(map, code) ==
    IF code \in Codes(map) THEN [found |-> TRUE, table |-> TableOf(map, code)]
    ELSE [found |-> FALSE, table |-> <<>>]

\* FUNCTION_NAMES.get(func_code, f"unknown_{func_code}")
NameOf(names, code) == IF code \in DOMAIN names THEN names[code] ELSE "unknown_function"

-----------------------------------------------------------------------------
(* UniversalPacketParser.parse *)

NoCore == [param1 |-> NoneInt, param2 |-> NoneInt, function_code |-> NoneInt,
           param3 |-> NoneInt, param4 |-> NoneInt, param5 |-> NoneInt]

NoExtended == [present |-> FALSE, length |-> 0, raw_bytes |-> <<>>,
               hasText |-> FALSE, text |-> <<>>]

NoPlaintext == [present |-> FALSE, params |-> <<>>, hasText |-> FALSE, text |-> <<>>]

\* result = {'success': False, 'raw_hex': encrypted_hex, 'error': None}; stage and
\* candidates record how far the call got and its local candidate list, thrown
\* whether an exception is on its way out of the code modelled
EmptyResult(encrypted_hex) ==
    [success |-> FALSE, raw_hex |-> encrypted_hex, error |-> "", stage |-> "start",
     thrown |-> FALSE,
     sequence |-> NoneInt, function_code |-> NoneInt, function_name |-> "",
     core_data |-> NoCore, extended_data |-> NoExtended, decrypted |-> <<>>,
     plaintext |-> NoPlaintext, candidates |-> <<>>]

\* int(chr(b)) succeeds exactly on the ten ASCII digits
IntOfChrRaises(b) == ~InRange(b, 48, 57)

IntOfChr(b) == b - 48

\* variant: only the low byte of the code is compared
GatePasses_LowByte(encrypted_data, entry) ==
    /\ Len(encrypted_data) >= 10
    /\ XorByte(encrypted_data, entry.table, 9) = entry.code % 256

\* the self-consistency test on one registry entry
GatePasses(encrypted_data, entry) ==
    /\ Len(encrypted_data) >= 10
    /\ XorByte(encrypted_data, entry.table, 9)
         + 256 * XorByte(encrypted_data, entry.table, 10) = entry.code

\* the points of a candidate other than those for the range of param1
ScoreRest(encrypted_data, entry) ==
    LET temp_decrypt == XorAll(encrypted_data, entry.table)
        param2 == UnpackI(temp_decrypt, 4)
        param1 == UnpackI(temp_decrypt, 0)
        ext_data == SubSeq(temp_decrypt, CORE_LEN + 1, Min(EXT_SCORE_END, Len(temp_decrypt)))
    IN  (IF param2 = 0 THEN 100 ELSE 0)
        + (IF entry.code \in MOVE_CODES /\ param1 = 0 THEN 200
           ELSE IF entry.code \in ITEM_NPC_CODES /\ param1 # 0 THEN 50
           ELSE 0)
        + Len(entry.table)
        + (IF Len(encrypted_data) > CORE_LEN
           THEN 5 * PrintableCount(GbkDecode(ext_data))
           ELSE 0)

\* if param1 < 0xFFFFFF: score += 10
PlausibilityBonus(param1) == IF param1 < PLAUSIBLE_LIMIT THEN 10 ELSE 0

\* the score of a candidate that passed the gate
ScoreOf(encrypted_data, entry) ==
    ScoreRest(encrypted_data, entry)
        + PlausibilityBonus(UnpackI(XorAll(encrypted_data, entry.table), 0))

\* the candidates list, in registry order
RECURSIVE CandidatesFrom(_, _, _)
CandidatesFrom(encrypted_data, map, i) ==
    IF i > Len(map) THEN <<>>
    ELSE (IF GatePasses(encrypted_data, map[i])
          THEN << [code |-> map[i].code, table |-> map[i].table,
                   score |-> ScoreOf(encrypted_data, map[i])] >>
          ELSE <<>>) \o CandidatesFrom(encrypted_data, map, i + 1)

\* variant: an unstable sort, a later equal score goes first
RECURSIVE InsertByScore_Unstable(_, _)
InsertByScore_Unstable(sorted, c) ==
    IF sorted = <<>> THEN <<c>>
    ELSE IF Head(sorted).score > c.score
         THEN <<Head(sorted)>> \o InsertByScore_Unstable(Tail(sorted), c)
    ELSE <<c>> \o sorted

\* candidates.sort(key=lambda x: x[3], reverse=True): stable, highest score first
RECURSIVE InsertByScore(_, _)
InsertByScore(sorted, c) ==
    IF sorted = <<>> THEN <<c>>
    ELSE IF Head(sorted).score >= c.score
         THEN <<Head(sorted)>> \o InsertByScore(Tail(sorted), c)
    ELSE <<c>> \o sorted

RECURSIVE SortCandidates(_)
SortCandidates(cands) ==
    IF cands = <<>> THEN <<>>
    ELSE InsertByScore(SortCandidates(SubSeq(cands, 1, Len(cands) - 1)), cands[Len(cands)])

\* the characters parse keeps of the decoded extended data
RECURSIVE FilterText(_)
FilterText(text) ==
    IF text = <<>> THEN <<>>
    ELSE (IF KeepChar(Head(text)) THEN <<Head(text)>> ELSE <<>>) \o FilterText(Tail(text))

ExtendedOf(decrypted_data) ==
    IF Len(decrypted_data) > CORE_LEN
    THEN LET raw == SubSeq(decrypted_data, CORE_LEN + 1, Len(decrypted_data))
             text_bytes == RStripZero(raw)
             text == IF text_bytes # <<>> THEN FilterText(GbkDecode(text_bytes)) ELSE <<>>
         IN  [present |-> TRUE, length |-> Len(decrypted_data) - CORE_LEN,
              raw_bytes |-> raw, hasText |-> text # <<>>, text |-> text]
    ELSE NoExtended

\* _generate_plaintext: the five numbers, then the text when there is one
GeneratePlaintext(core_data, extended_data) ==
    [present |-> TRUE,
     params |-> <<core_data.param1, core_data.param2, core_data.function_code,
                  core_data.param3, core_data.param4>>,
     hasText |-> extended_data.present /\ extended_data.hasText,
     text |-> IF extended_data.present /\ extended_data.hasText
              THEN extended_data.text ELSE <<>>]

\* variant: the last byte is not looked at
FormatCheck_NoTrailer(hex_bytes) ==
    IF Len(hex_bytes) < MIN_PACKET_LEN THEN "too_short"
    ELSE IF hex_bytes[1] # HEADER THEN "bad_markers"
    ELSE ""

\* the length and marker tests: the error each reports, "" when both pass
FormatCheck(hex_bytes) ==
    IF Len(hex_bytes) < MIN_PACKET_LEN THEN "too_short"
    ELSE IF hex_bytes[1] # HEADER \/ hex_bytes[Len(hex_bytes)] # TRAILER THEN "bad_markers"
    ELSE ""

\* the body of the try block.  encrypted_hex is [hexok, bytes]: hexok is whether
\* bytes.fromhex accepts the text
parse_body(encrypted_hex, map, names) ==
    LET result == EmptyResult(encrypted_hex)
        hex_bytes == encrypted_hex.bytes
    IN
    IF ~encrypted_hex.hexok
    THEN [result EXCEPT !.thrown = TRUE, !.stage = "hex"]
    ELSE IF FormatCheck(hex_bytes) = "too_short"
    THEN [result EXCEPT !.error = "too_short", !.stage = "length"]
    ELSE IF FormatCheck(hex_bytes) = "bad_markers"
    THEN [result EXCEPT !.error = "bad_markers", !.stage = "markers"]
    ELSE IF IntOfChrRaises(hex_bytes[2])
    THEN [result EXCEPT !.thrown = TRUE, !.stage = "sequence"]
    ELSE
    LET seq == IntOfChr(hex_bytes[2])
        encrypted_data == SubSeq(hex_bytes, 3, Len(hex_bytes) - 1)
        withSeq == [result EXCEPT !.sequence = seq]
    IN
    IF \E i \in 1..Len(map) : XorRaises(encrypted_data, map[i].table)
    THEN [withSeq EXCEPT !.thrown = TRUE, !.stage = "classify"]
    ELSE
    LET candidates == CandidatesFrom(encrypted_data, map, 1)
    IN
    IF candidates = <<>>
    THEN [withSeq EXCEPT !.error = "unrecognized", !.stage = "classify"]
    ELSE
    LET sorted == SortCandidates(candidates)
        func_code == sorted[1].code
        decrypted_data == XorAll(encrypted_data, sorted[1].table)
        core_data == [param1 |-> UnpackI(decrypted_data, 0),
                      param2 |-> UnpackI(decrypted_data, 4),
                      function_code |-> func_code,
                      param3 |-> UnpackH(decrypted_data, 10),
                      param4 |-> UnpackH(decrypted_data, 12),
                      param5 |-> UnpackH(decrypted_data, 14)]
        extended_data == ExtendedOf(decrypted_data)
    IN
    [withSeq EXCEPT !.success = TRUE, !.stage = "done",
                    !.function_code = func_code,
                    !.function_name = NameOf(names, func_code),
                    !.core_data = core_data,
                    !.extended_data = extended_data,
                    !.decrypted = decrypted_data,
                    !.plaintext = GeneratePlaintext(core_data, extended_data),
                    !.candidates = [i \in 1..Len(sorted) |->
                                      [code |-> sorted[i].code, score |-> sorted[i].score]]]

\* variant: no handler, the exception leaves parse
CatchAll_Reraise(result) == result

\* except Exception as e: result['error'] = "parse exception: ..."; return result
CatchAll(result) ==
    IF result.thrown THEN [result EXCEPT !.thrown = FALSE, !.error = "exception"]
    ELSE result

parse(encrypted_hex, map, names) == CatchAll(parse_body(encrypted_hex, map, names))

-----------------------------------------------------------------------------
(* UniversalPacketParser.reconstruct and add_xor_table *)

\* struct.pack raises struct.error on a value outside the format's range
PackRaises(func_code, core_data) ==
    \/ core_data.param1 < 0 \/ core_data.param2 < 0
    \/ ~InRange(func_code, 0, 65535)
    \/ ~InRange(core_data.param3, 0, 65535)
    \/ ~InRange(core_data.param4, 0, 65535)
    \/ ~InRange(core_data.param5, 0, 65535)

\* while len(data) < 22: data.append(0x00)
PadTo(data, n) == data \o [i \in 1..(IF Len(data) < n THEN n - Len(data) ELSE 0) |-> 0]

\* ord(str(sequence)) is defined on the one-character renderings only
OrdStrRaises(seq) == ~InRange(seq, 0, 9)

OrdStr(seq) == 48 + seq

\* variant: the counter taken modulo 9 after the increment
NextSequence_ModAfter(counter) == (counter + 1) % SEQ_MODULUS

NextSequence(counter) == (counter % SEQ_MODULUS) + 1

\* variant: the counter advances whether or not a sequence number is passed
SequenceAfter_Always(seqArg, counter) == NextSequence(counter)

\* if sequence is None: self.sequence = (self.sequence % 9) + 1
SequenceAfter(seqArg, counter) ==
    IF seqArg = NoneInt THEN NextSequence(counter) ELSE counter

\* variant: the counter is advanced before the call's checks are made
Raised_Advanced(tag, counter) ==
    [raised |-> TRUE, error |-> tag, packet |-> <<>>, emitted |-> NoneInt,
     sequence |-> NextSequence(counter)]

\* the outcome of a call: raised or not, the packet returned, the digit used,
\* and the value the call leaves in self.sequence
Raised(tag, counter) ==
    [raised |-> TRUE, error |-> tag, packet |-> <<>>, emitted |-> NoneInt,
     sequence |-> counter]

\* if extended_data and extended_data.get('text'): the text encoded, else nothing
EncodedText(extended_data) ==
    IF extended_data.present /\ extended_data.hasText
    THEN GbkEncode(extended_data.text) ELSE <<>>

\* seqArg = NoneInt stands for an omitted sequence argument
reconstruct(parsed_data, seqArg, map, counter) ==
    IF ~parsed_data.success THEN Raised("failed_result", counter)
    ELSE
    LET func_code == parsed_data.function_code
        core_data == parsed_data.core_data
        extended_data == parsed_data.extended_data
        looked == DictGet(map, func_code)
    IN
    IF ~looked.found THEN Raised("unknown_function_code", counter)
    ELSE IF PackRaises(func_code, core_data) THEN Raised("struct_error", counter)
    ELSE IF extended_data.present /\ extended_data.hasText
            /\ GbkEncodeRaises(extended_data.text)
    THEN Raised("encode_error", counter)
    ELSE
    LET xor_table == looked.table
        data == PadTo(PackI(core_data.param1) \o PackI(core_data.param2)
                      \o PackH(func_code) \o PackH(core_data.param3)
                      \o PackH(core_data.param4) \o PackH(core_data.param5)
                      \o EncodedText(extended_data),
                      PAD_LEN)
        seq == IF seqArg = NoneInt THEN counter ELSE seqArg
        after == SequenceAfter(seqArg, counter)
    IN
    IF OrdStrRaises(seq) THEN Raised("ord_error", after)
    ELSE IF XorRaises(data, xor_table) THEN Raised("xor_error", after)
    ELSE [raised |-> FALSE, error |-> "",
          packet |-> <<HEADER, OrdStr(seq)>> \o XorAll(data, xor_table) \o <<TRAILER>>,
          emitted |-> seq, sequence |-> after]

\* self.XOR_TABLE_MAP[func_code] = xor_table
add_xor_table_map(map, func_code, xor_table) == DictSet(map, func_code, xor_table)

\* if func_name: self.FUNCTION_NAMES[func_code] = func_name   ("" stands for None)
add_xor_table_names(names, func_code, func_name) ==
    IF func_name # ""
    THEN [c \in DOMAIN names \cup {func_code} |->
            IF c = func_code THEN func_name ELSE names[c]]
    ELSE names

\* enc_bytes[2:-1]
PayloadSlice(bytes) == SubSeq(bytes, 3, Len(bytes) - 1)

\* variant: the positions beyond the plaintext are filled in as if it were zero there
extract_xor_table_Guessing(encrypted_hex, decrypted_hex) ==
    [raised |-> FALSE, table |-> PayloadSlice(encrypted_hex.bytes)]

\* extract_xor_table: bytes.fromhex raises on either text, else the position-wise
\* XOR over range(min_len)
extract_xor_table(encrypted_hex, decrypted_hex) ==
    IF ~encrypted_hex.hexok \/ ~decrypted_hex.hexok
    THEN [raised |-> TRUE, table |-> <<>>]
    ELSE LET enc_data == PayloadSlice(encrypted_hex.bytes)
             dec_bytes == decrypted_hex.bytes
             min_len == Min(Len(enc_data), Len(dec_bytes))
         IN  [raised |-> FALSE,
              table |-> [i \in 1..min_len |-> ByteXor(enc_data[i], dec_bytes[i])]]

-----------------------------------------------------------------------------
(* Inputs *)

Hex(bytes) == [hexok |-> TRUE, bytes |-> bytes]

\* text bytes.fromhex rejects (an odd digit count, a non-hex character)
BadHex == [hexok |-> FALSE, bytes |-> <<>>]

Frame(digit, payload) == <<HEADER, digit>> \o payload \o <<TRAILER>>

\* encrypted bytes 0..3 (param1): the three fixtures' values, then values that
\* decode under MOVE_TABLE to 0xFFFFFE, 0xFFFFFF and 0x1000000
Param1Bytes ==
    { <<60, 60, 60, 60>>, <<83, 72, 61, 60>>, <<60, 68, 70, 122>>,
      <<194, 195, 195, 60>>, <<195, 195, 195, 60>>, <<60, 60, 60, 61>> }

\* encrypted bytes 4..7 (param2)
Param2Bytes == { <<60, 60, 60, 60>>, <<63, 76, 60, 60>> }

\* encrypted bytes 8..9: pass the gate of 3013/1006/5014/1010/1011, of 3011, of 5015,
\* of none with the low byte of the first group, of none
CodeBytes == { <<60, 60>>, <<58, 60>>, <<61, 60>>, <<60, 61>>, <<0, 0>> }

\* encrypted bytes 10..15 (param3..param5), from the first fixture
RestBytes == <<63, 65, 62, 114, 88, 60>>

\* extended data: none; the fixtures' own; 8 bytes that are zero under ITEM_TABLE;
\* 8 bytes that are 41 01 80 D0 DE FF 42 00 under ITEM_TABLE; 8 bytes that are
\* 41 0A 42 D0 DE 43 44 45 ("A", line feed, "B", one double-byte character, "CDE")
\* under ITEM_TABLE
ExtBytes ==
    { <<>>,
      <<194, 136, 198, 89, 43, 142, 255, 162>>,
      <<60, 108, 61, 82, 60, 60>>,
      <<60, 60, 60, 60, 60, 60>>,
      <<83, 92, 60, 61, 60, 60, 112, 73, 118, 116, 105, 72, 99, 109, 110, 118, 116>>,
      <<131, 130, 132, 137, 245, 205, 187, 231>>,
      <<194, 131, 4, 89, 43, 50, 249, 231>> }

Payloads ==
    { p1 \o p2 \o fc \o RestBytes \o ext :
        p1 \in Param1Bytes, p2 \in Param2Bytes, fc \in CodeBytes, ext \in ExtBytes }

GOLDEN_MOVE ==
    <<35, 52, 60, 60, 60, 60, 60, 60, 60, 60, 60, 60, 63, 65, 62, 114, 88, 60,
      60, 108, 61, 82, 60, 60, 33>>

GOLDEN_ITEM ==
    <<35, 52, 83, 72, 61, 60, 60, 60, 60, 60, 60, 60, 63, 106, 60, 112, 120, 60,
      83, 92, 60, 61, 60, 60, 112, 73, 118, 116, 105, 72, 99, 109, 110, 118, 116, 33>>

GOLDEN_NPC ==
    <<35, 56, 60, 68, 70, 122, 63, 76, 60, 60, 60, 60, 63, 110, 60, 108, 60, 60,
      60, 60, 60, 60, 60, 60, 33>>

Goldens == {GOLDEN_MOVE, GOLDEN_ITEM, GOLDEN_NPC}

\* the renderings the fixtures expect of the first and of the NPC packet
GOLDEN_MOVE_EXPECTED ==
    <<47010, 52173, 47074, 45308, 41896, 48, 41900, 48, 41900, 51, 48, 49, 51, 41900,
      49, 48, 51, 41900, 51, 41900, 56, 54, 41900, 41897>>

GOLDEN_NPC_EXPECTED ==
    <<47010, 52173, 47074, 45308, 41896, 50, 51, 48, 53, 56, 56, 57, 50, 56, 41900, 48,
      41900, 48, 41900, 49, 48, 49, 48, 41900, 48, 41900, 41897>>

\* the second byte runs over the digits and their neighbours '/' and ':'
DigitBytes == 47..58

\* too short, wrong first byte, wrong last byte
Malformed ==
    { <<>>, SubSeq(GOLDEN_MOVE, 1, 18) \o <<TRAILER>>,
      SubSeq(GOLDEN_MOVE, 1, 17) \o <<TRAILER>>,
      <<36>> \o Tail(GOLDEN_MOVE), SubSeq(GOLDEN_MOVE, 1, 24) \o <<34>>,
      <<33>> \o SubSeq(GOLDEN_MOVE, 2, 24) \o <<35>>,
      <<36>> \o SubSeq(GOLDEN_MOVE, 2, 17) \o <<TRAILER>> }

PacketInputs ==
    {Hex(Frame(52, p)) : p \in Payloads}
    \cup {Hex(g) : g \in Goldens}
    \cup {Hex([GOLDEN_MOVE EXCEPT ![2] = d]) : d \in DigitBytes}
    \cup {Hex(m) : m \in Malformed}
    \cup {BadHex}

\* a table registered at run time: it passes the gate on code bytes 3C 3C
CUSTOM_TABLE ==
    <<60, 60, 60, 60, 60, 60, 60, 60, 8, 46, 60, 60, 60, 60, 60, 60,
      131, 130, 132, 137, 245, 205, 187, 231>>

CustomEntry == [code |-> 4660, table |-> CUSTOM_TABLE, name |-> "custom"]

\* a table that is no byte sequence (add_xor_table checks nothing)
BROKEN_TABLE == <<60, 60, 60, 60, 60, 60, 60, 60, 300, 60>>

\* another table for the code 3013
OTHER_MOVE_TABLE == <<61, 60, 60, 60, 60, 60, 60, 60, 249, 55, 88, 65, 61, 114, 14, 60>>
BrokenEntry == [code |-> 4661, table |-> BROKEN_TABLE, name |-> ""]

ReplaceEntry == [code |-> 3013, table |-> OTHER_MOVE_TABLE, name |-> "renamed"]

\* the known plaintext of the extraction fixture: the fixed record of the first packet
GOLDEN_MOVE_CORE == <<0, 0, 0, 0, 0, 0, 0, 0, 197, 11, 103, 0, 3, 0, 86, 0>>

\* packets to extract from: the fixtures, packets with an empty and a one-byte
\* payload, no bytes at all, text that is no hex
ExtractCiphers ==
    { Hex(GOLDEN_MOVE), Hex(GOLDEN_ITEM), Hex(<<HEADER, 52, TRAILER>>),
      Hex(<<HEADER, 52, 60, TRAILER>>), Hex(<<>>), BadHex }

\* known plaintexts: shorter than, as long as and longer than the payloads
ExtractPlains ==
    { Hex(GOLDEN_MOVE_CORE), Hex(<<>>), Hex(GOLDEN_MOVE_CORE \o <<0, 80, 1, 110, 0, 0>>),
      Hex([i \in 1..34 |-> 255]), BadHex }

\* structured fields as the sender path builds them from a textual command
Fields(ok, code, p1, p3, text) ==
    [EmptyResult(Hex(<<>>)) EXCEPT
        !.success = ok, !.function_code = code,
        !.core_data = [param1 |-> p1, param2 |-> 0, function_code |-> code,
                       param3 |-> p3, param4 |-> 3, param5 |-> 86],
        !.extended_data = [present |-> text # <<>>, length |-> 0, raw_bytes |-> <<>>,
                           hasText |-> text # <<>>, text |-> text]]

\* a good command; one with text; an unregistered code; a failed result; a field
\* out of range; text with a character outside GBK; the NPC click of the fixtures
FieldInputs ==
    { Fields(TRUE, 3013, 0, 103, <<>>),
      Fields(TRUE, 1010, 230588928, 0, <<>>),
      Fields(TRUE, 1006, 4243548, 0, <<53470, 47284, 65>>),
      Fields(TRUE, 9999, 0, 103, <<>>),
      Fields(FALSE, 3013, 0, 103, <<>>),
      Fields(TRUE, 3013, 0, 70000, <<>>),
      Fields(TRUE, 1006, 1, 0, <<65, 70000>>) }

LifecyclePackets ==
    { Hex(GOLDEN_MOVE), Hex(GOLDEN_ITEM), Hex([GOLDEN_MOVE EXCEPT ![2] = 48]),
      Hex(SubSeq(GOLDEN_MOVE, 1, 17) \o <<TRAILER>>) }

-----------------------------------------------------------------------------
(* The textual command form: _generate_plaintext's rendering and
   PacketSender._parse_plaintext.  A string is a sequence of characters. *)

\* the characters of the literal, by GBK code: the four of the head, the wide
\* opening bracket, the wide comma, the wide closing bracket
PLAINTEXT_HEAD == <<47010, 52173, 47074, 45308>>
OPEN_WIDE == 41896
COMMA_WIDE == 41900
CLOSE_WIDE == 41897
OPEN_ASCII == 40
CLOSE_ASCII == 41
NEWLINE == 10

\* str(n)
RECURSIVE StrOfInt(_)
StrOfInt(n) ==
    IF n < 0 THEN <<45>> \o StrOfInt(0 - n)
    ELSE IF n < 10 THEN <<48 + n>>
    ELSE StrOfInt(n \div 10) \o <<48 + (n % 10)>>

\* sep.join(parts)
RECURSIVE JoinWith(_, _)
JoinWith(parts, sep) ==
    IF parts = <<>> THEN <<>>
    ELSE IF Len(parts) = 1 THEN parts[1]
    ELSE parts[1] \o <<sep>> \o JoinWith(Tail(parts), sep)

\* f"发送封包（{'，'.join(map(str, params))}，）" on what _generate_plaintext collected
FormatPlaintext(plaintext) ==
    LET numbers == [i \in 1..Len(plaintext.params) |-> StrOfInt(plaintext.params[i])]
        parts == IF plaintext.hasText THEN Append(numbers, plaintext.text) ELSE numbers
    IN  PLAINTEXT_HEAD \o <<OPEN_WIDE>> \o JoinWith(parts, COMMA_WIDE)
            \o <<COMMA_WIDE, CLOSE_WIDE>>

\* str.isspace on the characters GBK text can hold
IsSpace(c) == c \in 9..13 \/ c \in 28..32 \/ c = 41377

\* str.strip()
RECURSIVE LStrip(_)
LStrip(str) ==
    IF str # <<>> /\ IsSpace(Head(str)) THEN LStrip(Tail(str)) ELSE str

RECURSIVE RStrip(_)
RStrip(str) ==
    IF str # <<>> /\ IsSpace(str[Len(str)]) THEN RStrip(SubSeq(str, 1, Len(str) - 1))
    ELSE str

Strip(str) == RStrip(LStrip(str))

\* str.split(sep) for a one-character separator
RECURSIVE SplitOn(_, _)
SplitOn(str, sep) ==
    IF \A i \in 1..Len(str) : str[i] # sep THEN <<str>>
    ELSE LET k == CHOOSE i \in 1..Len(str) :
                    str[i] = sep /\ \A j \in 1..(i - 1) : str[j] # sep
         IN  <<SubSeq(str, 1, k - 1)>> \o SplitOn(SubSeq(str, k + 1, Len(str)), sep)

\* [p.strip() for p in params_str.split('，') if p.strip()]
RECURSIVE StripNonEmpty(_)
StripNonEmpty(parts) ==
    IF parts = <<>> THEN <<>>
    ELSE (IF Strip(Head(parts)) # <<>> THEN <<Strip(Head(parts))>> ELSE <<>>)
            \o StripNonEmpty(Tail(parts))

\* the decimal digits int() reads: ASCII and full-width
IsDecimal(c) == c \in 48..57 \/ c \in 41904..41913

DecimalValue(c) == IF c \in 48..57 THEN c - 48 ELSE c - 41904

\* the characters str.isdigit() accepts: the decimals and GBK's numbered signs
IsDigitChar(c) ==
    IsDecimal(c) \/ c \in 41649..41657 \/ c \in 41669..41677 \/ c \in 41689..41697

\* str.isdigit()
IsDigitStr(str) == str # <<>> /\ \A i \in 1..Len(str) : IsDigitChar(str[i])

\* the digits of a literal int() accepts: decimals, single underscores between them
IntBodyOk(body) ==
    /\ body # <<>>
    /\ \A i \in 1..Len(body) : IsDecimal(body[i]) \/ body[i] = 95
    /\ IsDecimal(body[1]) /\ IsDecimal(body[Len(body)])
    /\ \A i \in 1..(Len(body) - 1) : ~(body[i] = 95 /\ body[i + 1] = 95)

IntBody(str) ==
    LET t == Strip(str)
    IN  IF t # <<>> /\ t[1] \in {43, 45} THEN Tail(t) ELSE t

\* int(str) raises ValueError
IntRaises(str) == ~IntBodyOk(IntBody(str))

RECURSIVE DecimalOf(_)
DecimalOf(body) ==
    IF body = <<>> THEN 0
    ELSE LET c == body[Len(body)]
             rest == SubSeq(body, 1, Len(body) - 1)
         IN  IF c = 95 THEN DecimalOf(rest) ELSE 10 * DecimalOf(rest) + DecimalValue(c)

\* int(str)
IntOf(str) ==
    LET t == Strip(str)
    IN  IF t[1] = 45 THEN 0 - DecimalOf(IntBody(str)) ELSE DecimalOf(IntBody(str))

\* re.search(r'发送封包[（(](.+?)[）)]', plaintext): a match starting at k whose
\* group ends before j
SearchAt(str, k, j) ==
    /\ k + 4 <= Len(str)
    /\ SubSeq(str, k, k + 3) = PLAINTEXT_HEAD
    /\ str[k + 4] \in {OPEN_WIDE, OPEN_ASCII}
    /\ j \in (k + 6)..Len(str)
    /\ str[j] \in {CLOSE_WIDE, CLOSE_ASCII}
    /\ \A i \in (k + 5)..(j - 1) : str[i] # NEWLINE

SearchStarts(str) == {k \in 1..Len(str) : \E j \in 1..Len(str) : SearchAt(str, k, j)}

\* match.group(1): leftmost start, shortest group
SearchGroup(str) ==
    LET k == CHOOSE a \in SearchStarts(str) : \A b \in SearchStarts(str) : a <= b
        j == CHOOSE a \in 1..Len(str) :
                /\ SearchAt(str, k, a)
                /\ \A b \in 1..(a - 1) : ~SearchAt(str, k, b)
    IN  SubSeq(str, k + 5, j - 1)

PlaintextRaised(tag) ==
    [raised |-> TRUE, error |-> tag, data |-> EmptyResult(Hex(<<>>))]

\* int(params[i]) if len(params) > i else 0   (i counted from 1 here)
ParamOrZero(params, i) == IF Len(params) >= i THEN IntOf(params[i]) ELSE 0

\* PacketSender._parse_plaintext
parse_plaintext(plaintext) ==
    IF SearchStarts(plaintext) = {} THEN PlaintextRaised("bad_format")
    ELSE
    LET params == StripNonEmpty(SplitOn(SearchGroup(plaintext), COMMA_WIDE))
    IN
    IF Len(params) < 3 THEN PlaintextRaised("too_few_params")
    ELSE IF \E i \in 1..Min(Len(params), 6) : IntRaises(params[i])
    THEN PlaintextRaised("value_error")
    ELSE
    LET code == IntOf(params[3])
        hasText == Len(params) > 6 /\ ~IsDigitStr(params[7])
    IN  [raised |-> FALSE, error |-> "",
         data |-> [EmptyResult(Hex(<<>>)) EXCEPT
            !.success = TRUE,
            !.function_code = code,
            !.core_data = [param1 |-> IntOf(params[1]), param2 |-> IntOf(params[2]),
                           function_code |-> code,
                           param3 |-> ParamOrZero(params, 4),
                           param4 |-> ParamOrZero(params, 5),
                           param5 |-> ParamOrZero(params, 6)],
            !.extended_data = [present |-> hasText, length |-> 0, raw_bytes |-> <<>>,
                               hasText |-> hasText,
                               text |-> IF hasText THEN params[7] ELSE <<>>]]]

-----------------------------------------------------------------------------
(* The parser object: state after construction, and one action per method *)

MaxAutoCalls == 10

NoOut == [raised |-> FALSE, error |-> "", packet |-> <<>>, emitted |-> NoneInt,
          sequence |-> NoneInt]

NoEntry == [code |-> NoneInt, table |-> <<>>, name |-> ""]

IdleOp ==
    [kind |-> "idle", encrypted_hex |-> Hex(<<>>), parsed |-> EmptyResult(Hex(<<>>)),
     fromParse |-> FALSE, seqArg |-> NoneInt, out |-> NoOut, added |-> NoEntry,
     decrypted_hex |-> Hex(<<>>), extracted |-> [raised |-> FALSE, table |-> <<>>]]

\* no interceptor constructed
NoCapture ==
    /\ target_pid = NoneInt /\ callback = "none" /\ running = FALSE /\ thread = 0
    /\ loops = <<>> /\ stats = [total |-> 0, parsed |-> 0, failed |-> 0]
    /\ cbCalls = <<>> /\ pulled = 0 /\ sent = <<>> /\ intact = TRUE /\ pulledInfo = <<>>

\* no sender constructed
NoSender ==
    /\ connected = FALSE /\ sock = "none"
    /\ sendStats = [total_sent |-> 0, total_failed |-> 0]
    /\ history = <<>> /\ script_running = FALSE /\ script_thread = 0
    /\ callers = <<>> /\ apiCalls = 0 /\ lateSteps = 0

CodecInit ==
    /\ NoCapture
    /\ NoSender
    /\ XOR_TABLE_MAP = InitialTableMap
    /\ FUNCTION_NAMES = InitialFunctionNames
    /\ sequence = 1
    /\ op = IdleOp
    /\ autoCalls = 0

Parse(x) ==
    /\ op' = [IdleOp EXCEPT !.kind = "parse", !.encrypted_hex = x,
                            !.parsed = parse(x, XOR_TABLE_MAP, FUNCTION_NAMES)]
    /\ UNCHANGED <<XOR_TABLE_MAP, FUNCTION_NAMES, sequence, autoCalls>>
    /\ UNCHANGED captureVars
    /\ UNCHANGED senderVars

Reconstruct(parsed_data, seqArg, fromParse) ==
    LET out == reconstruct(parsed_data, seqArg, XOR_TABLE_MAP, sequence)
        emits == seqArg = NoneInt /\ ~out.raised
    IN  /\ emits => autoCalls < MaxAutoCalls
        /\ op' = [IdleOp EXCEPT !.kind = "reconstruct",
                                !.encrypted_hex = IF fromParse THEN op.encrypted_hex
                                                  ELSE Hex(<<>>),
                                !.parsed = parsed_data, !.fromParse = fromParse,
                                !.seqArg = seqArg, !.out = out]
        /\ sequence' = out.sequence
        /\ autoCalls' = IF emits THEN autoCalls + 1 ELSE autoCalls
        /\ UNCHANGED <<XOR_TABLE_MAP, FUNCTION_NAMES>>
        /\ UNCHANGED captureVars
        /\ UNCHANGED senderVars

\* reconstruct(result, sequence=result['sequence']) or reconstruct(result) on the
\* result of the parse call just made
ReconstructParsed ==
    /\ op.kind = "parse"
    /\ \E seqArg \in {NoneInt} \cup (IF op.parsed.success THEN {op.parsed.sequence} ELSE {}) :
          Reconstruct(op.parsed, seqArg, TRUE)

ReconstructFields ==
    \E f \in FieldInputs, seqArg \in {NoneInt, 0, 5, 10} : Reconstruct(f, seqArg, FALSE)

AddXorTable(e) ==
    /\ XOR_TABLE_MAP' = add_xor_table_map(XOR_TABLE_MAP, e.code, e.table)
    /\ FUNCTION_NAMES' = add_xor_table_names(FUNCTION_NAMES, e.code, e.name)
    /\ op' = [IdleOp EXCEPT !.kind = "add", !.added = e]
    /\ UNCHANGED <<sequence, autoCalls>>
    /\ UNCHANGED captureVars
    /\ UNCHANGED senderVars

ExtractXorTable(enc, dec) ==
    /\ op' = [IdleOp EXCEPT !.kind = "extract", !.encrypted_hex = enc,
                            !.decrypted_hex = dec,
                            !.extracted = extract_xor_table(enc, dec)]
    /\ UNCHANGED <<XOR_TABLE_MAP, FUNCTION_NAMES, sequence, autoCalls>>
    /\ UNCHANGED captureVars
    /\ UNCHANGED senderVars

ExtractAny == \E enc \in ExtractCiphers, dec \in ExtractPlains : ExtractXorTable(enc, dec)

ParseAny == \E x \in LifecyclePackets : Parse(x)

AddAny == \E e \in {CustomEntry, ReplaceEntry} : AddXorTable(e)

Next ==
    \/ ParseAny
    \/ ReconstructParsed
    \/ ReconstructFields
    \/ AddAny
    \/ ExtractAny

Spec == CodecInit /\ [][Next]_vars

-----------------------------------------------------------------------------
(* parse and reconstruct as functions: one call of each on every input, from
   every registry below *)

ParseInit ==
    /\ NoCapture
    /\ NoSender
    /\ \E e \in {NoEntry, CustomEntry, BrokenEntry} :
          /\ XOR_TABLE_MAP = IF e = NoEntry THEN InitialTableMap
                             ELSE add_xor_table_map(InitialTableMap, e.code, e.table)
          /\ FUNCTION_NAMES = IF e = NoEntry THEN InitialFunctionNames
                              ELSE add_xor_table_names(InitialFunctionNames, e.code, e.name)
    /\ sequence \in {1, 9}
    /\ op = IdleOp
    /\ autoCalls = 0

ParseOnce == op.kind = "idle" /\ \E x \in PacketInputs : Parse(x)

NextParse == ParseOnce \/ ReconstructParsed

SpecParse == ParseInit /\ [][NextParse]_vars

-----------------------------------------------------------------------------
(* PacketInterceptor: the capture loop and the calls that start and stop it *)

MaxPackets == 2
MaxThreads == 2

\* the process id the interceptor is built for, when it is built for one
TargetPids == {1234}

NoPacket ==
    [id |-> 0, pid |-> NoneInt, payload |-> <<>>, original |-> <<>>, faulty |-> FALSE]

\* a framed payload no table recognises
UNRECOGNIZED_PACKET == [GOLDEN_MOVE EXCEPT ![11] = 0, ![12] = 0]

\* packets the driver hands over: the process id it reports (NoneInt for none),
\* the TCP payload, and whether reading the packet's fields raises
CapturedPackets ==
    { [pid |-> pid, payload |-> payload, faulty |-> FALSE] :
        pid \in TargetPids,
        payload \in {<<>>, GOLDEN_MOVE, UNRECOGNIZED_PACKET} }
    \cup { [pid |-> pid, payload |-> GOLDEN_MOVE, faulty |-> FALSE] : pid \in {NoneInt, 4321} }
    \cup { [pid |-> pid, payload |-> GOLDEN_MOVE, faulty |-> TRUE] : pid \in TargetPids }

\* __init__(target_pid, callback): nothing runs, nothing is counted
CaptureInit ==
    /\ NoSender
    /\ XOR_TABLE_MAP = InitialTableMap
    /\ FUNCTION_NAMES = InitialFunctionNames
    /\ sequence = 1 /\ op = IdleOp /\ autoCalls = 0
    /\ target_pid \in {NoneInt} \cup TargetPids
    /\ callback \in {"none", "returns", "raises"}
    /\ running = FALSE
    /\ thread = 0
    /\ loops = <<>>
    /\ stats = [total |-> 0, parsed |-> 0, failed |-> 0]
    /\ cbCalls = <<>>
    /\ pulled = 0
    /\ sent = <<>>
    /\ intact = TRUE
    /\ pulledInfo = <<>>

\* start(): nothing when running, else a new loop thread
Start ==
    /\ ~running
    /\ Len(loops) < MaxThreads
    /\ running' = TRUE
    /\ loops' = Append(loops, [pc |-> "open", packet |-> NoPacket, seen |-> 0])
    /\ thread' = Len(loops) + 1
    /\ UNCHANGED <<target_pid, callback, stats, cbCalls, pulled, sent, intact, pulledInfo>>
    /\ UNCHANGED codecVars
    /\ UNCHANGED senderVars

\* stop(): clears the flag; the join gives up after its timeout
Stop ==
    /\ running' = FALSE
    /\ UNCHANGED <<target_pid, callback, thread, loops, stats, cbCalls, pulled, sent, intact,
                   pulledInfo>>
    /\ UNCHANGED codecVars
    /\ UNCHANGED senderVars

\* with pydivert.WinDivert(filter_str) as w: the handle opens, or opening raises
LoopOpen(t) ==
    /\ loops[t].pc = "open"
    /\ \E opened \in BOOLEAN :
          loops' = [loops EXCEPT ![t].pc = IF opened THEN "recv" ELSE "finally"]
    /\ UNCHANGED <<target_pid, callback, running, thread, stats, cbCalls, pulled, sent, intact,
                   pulledInfo>>
    /\ UNCHANGED codecVars
    /\ UNCHANGED senderVars

\* for packet in w: if not self.running: break -- the next packet is taken from
\* the driver, and the loop leaves without it when the flag is down
LoopRecv(t) ==
    /\ loops[t].pc = "recv"
    /\ pulled < MaxPackets
    /\ \E p \in CapturedPackets :
          /\ loops' = IF running
                      THEN [loops EXCEPT ![t].pc = "handle",
                                         ![t].packet = [id |-> pulled + 1, pid |-> p.pid,
                                                        payload |-> p.payload,
                                                        original |-> p.payload,
                                                        faulty |-> p.faulty]]
                      ELSE [loops EXCEPT ![t].pc = "finally"]
          /\ pulledInfo' = Append(pulledInfo, [pid |-> p.pid, handled |-> 0, parses |-> 0,
                                                outcome |-> "",
                                                loop |-> t, latest |-> thread])
    /\ pulled' = pulled + 1
    /\ cbCalls' = Append(cbCalls, 0)
    /\ sent' = Append(sent, 0)
    /\ UNCHANGED <<target_pid, callback, running, thread, stats, intact>>
    /\ UNCHANGED codecVars
    /\ UNCHANGED senderVars

\* parse of the driver's payloads under the registry the class is loaded with,
\* tabulated once
InitialParse ==
    [payload \in {p.payload : p \in CapturedPackets} |->
        parse(Hex(payload), InitialTableMap, InitialFunctionNames)]

\* _parse_payload: the payload as hex text, through parse; its own handler
\* answers an exception with a failure result
ParsePayload(payload) ==
    LET result == IF /\ XOR_TABLE_MAP = InitialTableMap
                     /\ FUNCTION_NAMES = InitialFunctionNames
                     /\ payload \in DOMAIN InitialParse
                  THEN InitialParse[payload]
                  ELSE parse(Hex(payload), XOR_TABLE_MAP, FUNCTION_NAMES)
    IN  IF result.thrown THEN [result EXCEPT !.thrown = FALSE, !.success = FALSE]
        ELSE result

\* what _handle_packet does to a packet: "raised" when reading it raises, else
\* "empty", "parsed" or "failed"
HandleOutcome(p) ==
    IF p.faulty THEN "raised"
    ELSE IF Len(p.payload) = 0 THEN "empty"
    ELSE IF ParsePayload(p.payload).success THEN "parsed"
    ELSE "failed"

\* the application-layer filter: the packet goes straight back to the driver
Filtered(p) == target_pid # NoneInt /\ (p.pid = NoneInt \/ p.pid # target_pid)

\* self.stats['total'] += 1, first half: a packet that passes the filter enters
\* _handle_packet and the loop reads the counter.  No lock is held, so another
\* loop's handler may run before the sum is stored
LoopEnter(t) ==
    /\ loops[t].pc = "handle"
    /\ ~Filtered(loops[t].packet)
    /\ loops' = [loops EXCEPT ![t].pc = "count", ![t].seen = stats.total]
    /\ UNCHANGED <<target_pid, callback, running, thread, stats, cbCalls, pulled, sent, intact,
                   pulledInfo>>
    /\ UNCHANGED codecVars
    /\ UNCHANGED senderVars

\* the body of the loop's try statement with its handler: the filter, then the
\* rest of _handle_packet from the store of the total on, and w.send(packet) in
\* the handler when that raised
LoopHandle(t) ==
    LET p == loops[t].packet
    IN  /\ \/ loops[t].pc = "handle" /\ Filtered(p)
           \/ loops[t].pc = "count"
        /\ loops' = [loops EXCEPT ![t].pc = "recv", ![t].packet = NoPacket, ![t].seen = 0]
        /\ sent' = [sent EXCEPT ![p.id] = @ + 1]
        /\ intact' = (intact /\ p.payload = p.original)
        /\ \E outcome \in {HandleOutcome(p)} :
              /\ stats' = IF Filtered(p) THEN stats
                          ELSE [total |-> loops[t].seen + 1,
                                parsed |-> stats.parsed + (IF outcome = "parsed" THEN 1 ELSE 0),
                                failed |-> stats.failed + (IF outcome = "failed" THEN 1 ELSE 0)]
              /\ cbCalls' = IF ~Filtered(p) /\ outcome = "parsed" /\ callback # "none"
                            THEN [cbCalls EXCEPT ![p.id] = @ + 1]
                            ELSE cbCalls
              /\ pulledInfo' = IF Filtered(p) THEN pulledInfo
                               ELSE [pulledInfo EXCEPT
                                       ![p.id].handled = @ + 1,
                                       ![p.id].parses = @ + (IF outcome \in {"parsed", "failed"}
                                                             THEN 1 ELSE 0),
                                       ![p.id].outcome = outcome]
        /\ UNCHANGED <<target_pid, callback, running, thread, pulled>>
        /\ UNCHANGED codecVars
        /\ UNCHANGED senderVars

\* finally: self.running = False
LoopFinally(t) ==
    /\ loops[t].pc = "finally"
    /\ loops' = [loops EXCEPT ![t].pc = "done"]
    /\ running' = FALSE
    /\ UNCHANGED <<target_pid, callback, thread, stats, cbCalls, pulled, sent, intact,
                   pulledInfo>>
    /\ UNCHANGED codecVars
    /\ UNCHANGED senderVars

NextCapture ==
    \/ Start
    \/ Stop
    \/ \E t \in 1..Len(loops) : LoopOpen(t)
    \/ \E t \in 1..Len(loops) : LoopRecv(t)
    \/ \E t \in 1..Len(loops) : LoopEnter(t)
    \/ \E t \in 1..Len(loops) : LoopHandle(t)
    \/ \E t \in 1..Len(loops) : LoopFinally(t)

SpecCapture == CaptureInit /\ [][NextCapture]_vars

-----------------------------------------------------------------------------
(* PacketSender: the send path and the script runner *)

\* textual commands: the one the docstrings give; the rendering parse makes of the
\* first fixture; a command for a code without a table
CMD_DOC == GOLDEN_MOVE_EXPECTED

CMD_RENDERED ==
    FormatPlaintext(parse(Hex(GOLDEN_MOVE), InitialTableMap, InitialFunctionNames).plaintext)

CMD_UNKNOWN_CODE ==
    PLAINTEXT_HEAD \o <<OPEN_WIDE>>
        \o JoinWith(<<StrOfInt(0), StrOfInt(0), StrOfInt(9999)>>, COMMA_WIDE)
        \o <<COMMA_WIDE, CLOSE_WIDE>>

Commands == {CMD_DOC, CMD_RENDERED, CMD_UNKNOWN_CODE}

\* a script line, by the branch of send_script that takes it: "blank" (empty or a
\* comment), "wait", "repeat" (count n; NoneInt when the count does not read as
\* digits), "end", "send" (a command), "unknown"
Line(kind, n, cmd) == [kind |-> kind, n |-> n, cmd |-> cmd]

SendLine(cmd) == Line("send", 0, cmd)
WaitLine == Line("wait", 500, <<>>)
RepeatLine(n) == Line("repeat", n, <<>>)
EndLine == Line("end", 0, <<>>)
BlankLine == Line("blank", 0, <<>>)

\* variant: the block ends at the first end line, whatever the depth
RECURSIVE ScanBlock_FirstEnd(_, _, _, _)
ScanBlock_FirstEnd(lines, i, depth, repeat_lines) ==
    IF i > Len(lines) THEN [repeat_lines |-> repeat_lines, i |-> i, closed |-> FALSE]
    ELSE IF lines[i].kind = "end"
    THEN [repeat_lines |-> repeat_lines, i |-> i, closed |-> TRUE]
    ELSE ScanBlock_FirstEnd(lines, i + 1, depth, Append(repeat_lines, lines[i]))

\* the scan for the end of a repeat block, from line i at nesting depth
RECURSIVE ScanBlock(_, _, _, _)
ScanBlock(lines, i, depth, repeat_lines) ==
    IF i > Len(lines) THEN [repeat_lines |-> repeat_lines, i |-> i, closed |-> FALSE]
    ELSE IF lines[i].kind = "repeat"
    THEN ScanBlock(lines, i + 1, depth + 1, Append(repeat_lines, lines[i]))
    ELSE IF lines[i].kind = "end" /\ depth = 1
    THEN [repeat_lines |-> repeat_lines, i |-> i, closed |-> TRUE]
    ELSE IF lines[i].kind = "end"
    THEN ScanBlock(lines, i + 1, depth - 1, Append(repeat_lines, lines[i]))
    ELSE ScanBlock(lines, i + 1, depth, Append(repeat_lines, lines[i]))

\* whether every repeat has its end and every end its repeat
RECURSIVE Nesting(_, _, _)
Nesting(lines, i, depth) ==
    IF i > Len(lines) THEN depth = 0
    ELSE IF lines[i].kind = "repeat" THEN Nesting(lines, i + 1, depth + 1)
    ELSE IF lines[i].kind = "end" THEN depth > 0 /\ Nesting(lines, i + 1, depth - 1)
    ELSE Nesting(lines, i + 1, depth)

WellNested(lines) == Nesting(lines, 1, 0)

\* scripts: straight; one block; a block never closed; an end never opened; a
\* block in a block
SCRIPT_STRAIGHT == <<BlankLine, SendLine(CMD_DOC), WaitLine>>
SCRIPT_BLOCK == <<RepeatLine(2), SendLine(CMD_DOC), EndLine>>
SCRIPT_UNCLOSED == <<SendLine(CMD_UNKNOWN_CODE), RepeatLine(1), SendLine(CMD_DOC)>>
SCRIPT_STRAY_END == <<EndLine, SendLine(CMD_DOC)>>
SCRIPT_NESTED ==
    <<RepeatLine(1), RepeatLine(1), SendLine(CMD_RENDERED), EndLine, WaitLine, EndLine>>

Scripts ==
    {SCRIPT_STRAIGHT, SCRIPT_BLOCK, SCRIPT_UNCLOSED, SCRIPT_STRAY_END, SCRIPT_NESTED}

\* the scripts handed to send_script_async
AsyncScripts == {SCRIPT_STRAIGHT}

MaxApiCalls == 3
MAX_HISTORY == 1000

\* a frame of send_script: its lines, the line it is at, and the block of the
\* repeat it is executing with the iterations still to run
Frame0(lines) == [lines |-> lines, i |-> 1, reps |-> 0, block |-> <<>>]

\* a thread using the sender.  pc: "idle", "start" (run_script not yet entered),
\* "line" (send_script between two steps), "seq_read" (in send_plaintext, up to
\* the read of the counter), "seq_read2", "seq_write", "raw", "in_send", "history",
\* "finally", "done".  data is what _parse_plaintext returned, packet what
\* reconstruct returned, attempts the commands send_plaintext was called with
\* since the thread's call began
NewCaller(kind, pc, script) ==
    [kind |-> kind, pc |-> pc, script |-> script, frames |-> <<>>, cmd |-> <<>>,
     data |-> <<>>, seq |-> NoneInt, tmp |-> NoneInt, packet |-> <<>>,
     sent_ok |-> FALSE, results |-> <<>>, attempts |-> <<>>, stopped |-> FALSE]

\* SendResult: success, error tag, the bytes of packet_hex
SendResult(success, error, packet) ==
    [success |-> success, error |-> error, packet |-> packet]

\* what send_plaintext and send_packet do before the sequence number is taken:
\* _parse_plaintext, then reconstruct up to the padding loop
PrepareOf(cmd, map) ==
    LET q == parse_plaintext(cmd)
    IN  IF q.raised THEN [ok |-> FALSE, error |-> "plaintext", data |-> q.data]
        ELSE IF ~q.data.success THEN [ok |-> FALSE, error |-> "invalid", data |-> q.data]
        ELSE IF reconstruct(q.data, 1, map, 1).raised
        THEN [ok |-> FALSE, error |-> "rebuild", data |-> q.data]
        ELSE [ok |-> TRUE, error |-> "", data |-> q.data]

\* the commands under the registry the class is loaded with, tabulated once
InitialPrepare == [cmd \in Commands |-> PrepareOf(cmd, InitialTableMap)]

Prepare(cmd) ==
    IF XOR_TABLE_MAP = InitialTableMap /\ cmd \in DOMAIN InitialPrepare
    THEN InitialPrepare[cmd]
    ELSE PrepareOf(cmd, XOR_TABLE_MAP)

\* the packet reconstruct frames once it holds the sequence number seq
PacketFor(data, seq) == reconstruct(data, seq, XOR_TABLE_MAP, seq).packet

\* PacketSender(): nothing connected, nothing sent, no script; the caller's thread
SenderInit ==
    /\ NoCapture
    /\ XOR_TABLE_MAP = InitialTableMap
    /\ FUNCTION_NAMES = InitialFunctionNames
    /\ sequence = 1 /\ op = IdleOp /\ autoCalls = 0
    /\ connected = FALSE /\ sock = "none"
    /\ sendStats = [total_sent |-> 0, total_failed |-> 0]
    /\ history = <<>>
    /\ script_running = FALSE /\ script_thread = 0
    /\ callers = <<NewCaller("caller", "idle", <<>>)>>
    /\ apiCalls = 0
    /\ lateSteps = 0

CallerIdle == callers[1].pc = "idle"

\* connect(host, port): the old socket is dropped, a new one made; it connects and
\* the counters are reset, or connecting raises
Connect ==
    /\ CallerIdle
    /\ apiCalls < MaxApiCalls
    /\ apiCalls' = apiCalls + 1
    /\ sock' = "open"
    /\ \E ok \in BOOLEAN :
          /\ connected' = ok
          /\ sendStats' = IF ok THEN [total_sent |-> 0, total_failed |-> 0] ELSE sendStats
    /\ UNCHANGED <<XOR_TABLE_MAP, FUNCTION_NAMES, sequence, op, autoCalls>>
    /\ UNCHANGED captureVars
    /\ UNCHANGED <<history, script_running, script_thread, callers, lateSteps>>

\* disconnect()
Disconnect ==
    /\ CallerIdle
    /\ apiCalls < MaxApiCalls
    /\ apiCalls' = apiCalls + 1
    /\ sock' = "none"
    /\ connected' = FALSE
    /\ UNCHANGED <<XOR_TABLE_MAP, FUNCTION_NAMES, sequence, op, autoCalls>>
    /\ UNCHANGED captureVars
    /\ UNCHANGED <<sendStats, history, script_running, script_thread, callers, lateSteps>>

\* a send call of thread record c returns result: to send_script when the thread is
\* in one, else to the caller
Finish(c, result) ==
    [c EXCEPT !.results = Append(@, result),
              !.pc = IF c.frames = <<>> THEN "idle" ELSE "line",
              !.cmd = <<>>, !.data = <<>>, !.seq = NoneInt, !.tmp = NoneInt,
              !.packet = <<>>, !.sent_ok = FALSE]

\* send_plaintext(cmd) is entered
Begin(c, cmd) == [c EXCEPT !.pc = "seq_read", !.cmd = cmd, !.attempts = Append(@, cmd)]

\* send_plaintext up to the sequence number: an error result when _parse_plaintext
\* or reconstruct raises, else sequence = self.sequence
Taken(c, prepared, counter) ==
    IF ~prepared.ok THEN Finish(c, SendResult(FALSE, prepared.error, <<>>))
    ELSE [c EXCEPT !.pc = "seq_read2", !.data = prepared.data, !.seq = counter]

\* the caller calls send_plaintext(cmd)
SendPlaintext ==
    /\ CallerIdle
    /\ apiCalls < MaxApiCalls
    /\ \E cmd \in Commands :
          callers' = [callers EXCEPT ![1] =
                        Begin([callers[1] EXCEPT !.results = <<>>, !.attempts = <<>>,
                                                 !.script = <<>>], cmd)]
    /\ apiCalls' = apiCalls + 1
    /\ UNCHANGED <<codecVars, captureVars>>
    /\ UNCHANGED <<connected, sock, sendStats, history, script_running, script_thread,
                   lateSteps>>

\* the caller calls send_script(script)
SendScriptOf(script) ==
    /\ CallerIdle
    /\ apiCalls < MaxApiCalls
    /\ callers' = [callers EXCEPT ![1] =
                      [callers[1] EXCEPT !.results = <<>>, !.attempts = <<>>,
                                         !.script = script,
                                         !.frames = <<Frame0(script)>>, !.pc = "line"]]
    /\ apiCalls' = apiCalls + 1
    /\ UNCHANGED <<codecVars, captureVars>>
    /\ UNCHANGED <<connected, sock, sendStats, history, script_running, script_thread,
                   lateSteps>>

SendScript == \E script \in Scripts : SendScriptOf(script)

\* send_script_async(script): nothing when script_running, else a new thread that
\* has yet to enter run_script
SendScriptAsync ==
    /\ CallerIdle
    /\ apiCalls < MaxApiCalls
    /\ apiCalls' = apiCalls + 1
    /\ IF script_running
       THEN UNCHANGED <<callers, script_thread>>
       ELSE \E script \in AsyncScripts :
               /\ callers' = Append(callers, NewCaller("script", "start", script))
               /\ script_thread' = Len(callers) + 1
    /\ UNCHANGED <<codecVars, captureVars>>
    /\ UNCHANGED <<connected, sock, sendStats, history, script_running, lateSteps>>

\* a thread that is inside send_script
Executing(c) == c.kind = "script" /\ c.pc \notin {"start", "finally", "done"}

\* stop_script(): the flag is cleared; the join gives up after its timeout
StopScript ==
    /\ CallerIdle
    /\ apiCalls < MaxApiCalls
    /\ apiCalls' = apiCalls + 1
    /\ script_running' = FALSE
    /\ callers' = [t \in 1..Len(callers) |->
                      IF t = script_thread /\ Executing(callers[t])
                      THEN [callers[t] EXCEPT !.stopped = TRUE] ELSE callers[t]]
    /\ UNCHANGED <<codecVars, captureVars>>
    /\ UNCHANGED <<connected, sock, sendStats, history, script_thread, lateSteps>>

\* run_script: self.script_running = True, then send_script(script)
ScriptStart(t) ==
    /\ callers[t].pc = "start"
    /\ script_running' = TRUE
    /\ callers' = [callers EXCEPT ![t].pc = "line",
                                  ![t].frames = <<Frame0(callers[t].script)>>]
    /\ UNCHANGED <<codecVars, captureVars>>
    /\ UNCHANGED <<connected, sock, sendStats, history, script_thread, apiCalls, lateSteps>>

\* run_script: finally: self.script_running = False; the thread ends and what
\* send_script returned is dropped
ScriptFinally(t) ==
    /\ callers[t].pc = "finally"
    /\ script_running' = FALSE
    /\ callers' = [callers EXCEPT ![t] = NewCaller("script", "done", <<>>)]
    /\ UNCHANGED <<codecVars, captureVars>>
    /\ UNCHANGED <<connected, sock, sendStats, history, script_thread, apiCalls, lateSteps>>

TopFrame(c) == c.frames[Len(c.frames)]

SetTop(c, f) == [c EXCEPT !.frames[Len(c.frames)] = f]

\* what the step send_script takes next is: "iterate" (one more pass over a repeat
\* block), "return", or the kind of the line it is at
StepKind(c) ==
    LET f == TopFrame(c)
    IN  IF f.reps > 0 THEN "iterate"
        ELSE IF f.i > Len(f.lines) THEN "return"
        ELSE f.lines[f.i].kind

\* the steps the script language names: a send, a wait, a pass over a block
IsScriptStep(kind) == kind \in {"send", "wait", "iterate"}

\* one step of send_script on thread record c
StepOf(c) ==
    LET f == TopFrame(c)
        kind == StepKind(c)
    IN  IF kind = "iterate"
        THEN [SetTop(c, [f EXCEPT !.reps = f.reps - 1])
                EXCEPT !.frames = Append(@, Frame0(f.block))]
        ELSE IF kind = "return"
        THEN [c EXCEPT !.frames = SubSeq(@, 1, Len(@) - 1),
                       !.pc = IF Len(c.frames) > 1 THEN "line"
                              ELSE IF c.kind = "script" THEN "finally" ELSE "idle"]
        ELSE IF kind = "send"
        THEN Begin(SetTop(c, [f EXCEPT !.i = f.i + 1]), f.lines[f.i].cmd)
        ELSE IF kind = "repeat" /\ f.lines[f.i].n # NoneInt
        THEN LET scan == ScanBlock(f.lines, f.i + 1, 1, <<>>)
             IN  SetTop(c, [f EXCEPT !.i = scan.i + 1, !.reps = f.lines[f.i].n,
                                     !.block = scan.repeat_lines])
        ELSE SetTop(c, [f EXCEPT !.i = f.i + 1])

\* send_script: one pass of the loop over the lines, or a pass over a repeat block
\* begun, or the return
RunnerStep(t) ==
    /\ callers[t].pc = "line"
    /\ callers' = [callers EXCEPT ![t] = StepOf(callers[t])]
    /\ lateSteps' = IF callers[t].stopped /\ IsScriptStep(StepKind(callers[t]))
                    THEN lateSteps + 1 ELSE lateSteps
    /\ UNCHANGED <<codecVars, captureVars>>
    /\ UNCHANGED <<connected, sock, sendStats, history, script_running, script_thread,
                   apiCalls>>

\* send_plaintext, send_packet, reconstruct down to: sequence = self.sequence
SeqRead(t) ==
    /\ callers[t].pc = "seq_read"
    /\ callers' = [callers EXCEPT ![t] = Taken(callers[t], Prepare(callers[t].cmd), sequence)]
    /\ UNCHANGED <<codecVars, captureVars>>
    /\ UNCHANGED <<connected, sock, sendStats, history, script_running, script_thread,
                   apiCalls, lateSteps>>

\* reconstruct: self.sequence is read for (self.sequence % 9) + 1
SeqRead2(t) ==
    /\ callers[t].pc = "seq_read2"
    /\ callers' = [callers EXCEPT ![t].pc = "seq_write", ![t].tmp = sequence]
    /\ UNCHANGED <<codecVars, captureVars>>
    /\ UNCHANGED <<connected, sock, sendStats, history, script_running, script_thread,
                   apiCalls, lateSteps>>

\* reconstruct: self.sequence = ... is stored, and the packet is framed
SeqWrite(t) ==
    /\ callers[t].pc = "seq_write"
    /\ sequence' = NextSequence(callers[t].tmp)
    /\ callers' = [callers EXCEPT ![t].pc = "raw",
                                  ![t].packet = PacketFor(callers[t].data, callers[t].seq)]
    /\ UNCHANGED <<XOR_TABLE_MAP, FUNCTION_NAMES, op, autoCalls>>
    /\ UNCHANGED captureVars
    /\ UNCHANGED <<connected, sock, sendStats, history, script_running, script_thread,
                   apiCalls, lateSteps>>

\* send_raw: refused when not connected, else self.socket.send(data) is entered
RawCheck(t) ==
    LET c == callers[t]
    IN  /\ c.pc = "raw"
        /\ IF ~connected \/ sock = "none"
           THEN /\ sendStats' = [sendStats EXCEPT !.total_failed = @ + 1]
                /\ callers' = [callers EXCEPT ![t] =
                        Finish(c, SendResult(FALSE, "not_connected", c.packet))]
           ELSE /\ callers' = [callers EXCEPT ![t].pc = "in_send"]
                /\ UNCHANGED sendStats
        /\ UNCHANGED <<codecVars, captureVars>>
        /\ UNCHANGED <<connected, sock, history, script_running, script_thread, apiCalls,
                       lateSteps>>

\* send_raw: self.socket.send(data) returns or raises
SendEnd(t) ==
    /\ callers[t].pc = "in_send"
    /\ \E ok \in BOOLEAN :
          /\ callers' = [callers EXCEPT ![t].pc = "history", ![t].sent_ok = ok]
          /\ sendStats' = IF ok THEN [sendStats EXCEPT !.total_sent = @ + 1]
                          ELSE [sendStats EXCEPT !.total_failed = @ + 1]
          /\ connected' = IF ok THEN connected ELSE FALSE
    /\ UNCHANGED <<codecVars, captureVars>>
    /\ UNCHANGED <<sock, history, script_running, script_thread, apiCalls, lateSteps>>

\* send_raw: with self.history_lock: append, and drop the oldest beyond max_history
HistoryAppend(t) ==
    LET c == callers[t]
        result == SendResult(c.sent_ok, IF c.sent_ok THEN "" ELSE "send_failed", c.packet)
        appended == Append(history, result)
    IN  /\ c.pc = "history"
        /\ history' = IF Len(appended) > MAX_HISTORY THEN Tail(appended) ELSE appended
        /\ callers' = [callers EXCEPT ![t] = Finish(c, result)]
        /\ UNCHANGED <<codecVars, captureVars>>
        /\ UNCHANGED <<connected, sock, sendStats, script_running, script_thread, apiCalls,
                       lateSteps>>

NextSender ==
    \/ Connect
    \/ Disconnect
    \/ SendPlaintext
    \/ SendScript
    \/ SendScriptAsync
    \/ StopScript
    \/ \E t \in 1..Len(callers) : ScriptStart(t)
    \/ \E t \in 1..Len(callers) : RunnerStep(t)
    \/ \E t \in 1..Len(callers) : SeqRead(t)
    \/ \E t \in 1..Len(callers) : SeqRead2(t)
    \/ \E t \in 1..Len(callers) : SeqWrite(t)
    \/ \E t \in 1..Len(callers) : RawCheck(t)
    \/ \E t \in 1..Len(callers) : SendEnd(t)
    \/ \E t \in 1..Len(callers) : HistoryAppend(t)
    \/ \E t \in 1..Len(callers) : ScriptFinally(t)

SpecSender == SenderInit /\ [][NextSender]_vars

-----------------------------------------------------------------------------
(* PacketSender used from one thread: send_script and send_plaintext calls made
   one after the other *)

\* scripts with blocks in blocks: a block of three passes inside one of two, with
\* lines after the inner end; a block with the count 0
SCRIPT_DEEP ==
    <<RepeatLine(2), RepeatLine(3), SendLine(CMD_UNKNOWN_CODE), EndLine,
      SendLine(CMD_RENDERED), WaitLine, EndLine, SendLine(CMD_DOC)>>
SCRIPT_ZERO ==
    <<RepeatLine(0), SendLine(CMD_DOC), EndLine, BlankLine, SendLine(CMD_RENDERED)>>

ScriptInputs == Scripts \cup {SCRIPT_DEEP, SCRIPT_ZERO}

SendAnyScript == \E script \in ScriptInputs : SendScriptOf(script)

\* a step of the calling thread inside the call it made
CallProgress ==
    \/ RunnerStep(1) \/ SeqRead(1) \/ SeqRead2(1) \/ SeqWrite(1)
    \/ RawCheck(1) \/ SendEnd(1) \/ HistoryAppend(1)

NextScript ==
    \/ Connect
    \/ Disconnect
    \/ SendPlaintext
    \/ SendAnyScript
    \/ RunnerStep(1)
    \/ SeqRead(1)
    \/ SeqRead2(1)
    \/ SeqWrite(1)
    \/ RawCheck(1)
    \/ SendEnd(1)
    \/ HistoryAppend(1)

\* a thread inside a call goes on running it
SpecScript == SenderInit /\ [][NextScript]_vars /\ WF_vars(CallProgress)

-----------------------------------------------------------------------------
(* Properties of the codec *)

PayloadOf(encrypted_hex) == SubSeq(encrypted_hex.bytes, 3, Len(encrypted_hex.bytes) - 1)

ByteTables(map) ==
    \A i \in 1..Len(map) : \A j \in 1..Len(map[i].table) : IsByte(map[i].table[j])

\* the state follows reconstruct(parse(x), sequence = parse(x).sequence)
ReconOfParse ==
    /\ op.kind = "reconstruct" /\ op.fromParse
    /\ op.parsed.success /\ op.seqArg = op.parsed.sequence

\* the packet returned equals x in the header and at payload positions 0..n-1
SamePrefix(n) ==
    LET x == op.encrypted_hex.bytes
        y == op.out.packet
    IN  /\ ~op.out.raised
        /\ y[1] = x[1] /\ y[2] = x[2]
        /\ \A i \in 1..Min(n, Len(x) - 3) : 2 + i < Len(y) /\ y[2 + i] = x[2 + i]

SelectedTableLen == Len(TableOf(XOR_TABLE_MAP, op.parsed.function_code))

\* C1 as stated: reconstruct(parse(x), sequence = parse(x).sequence) equals x in the
\* two header bytes and at every payload position below the selected table's length
C1_RoundTripWithinTable == ReconOfParse => SamePrefix(SelectedTableLen)

\* C2: parse returns a result for every input and every registry and raises nothing;
\* a result that is no success carries a non-empty error message
C2_ParseNeverRaises ==
    op.kind = "parse" =>
        /\ ~op.parsed.thrown
        /\ ~op.parsed.success => op.parsed.error # ""

C2_Witness ==
    /\ op.kind = "parse" /\ ~ByteTables(XOR_TABLE_MAP)
    /\ op.parsed.stage = "classify" /\ op.parsed.error = "exception"

BadFrame(b) == Len(b) < MIN_PACKET_LEN \/ b[1] # HEADER \/ b[Len(b)] # TRAILER

\* C3: a buffer shorter than 19 bytes, or with a first byte other than 0x23 or a last
\* byte other than 0x21, is rejected with an error message, gets no function code
\* and never reaches the classifier
C3_MalformedRejected ==
    (op.kind = "parse" /\ op.encrypted_hex.hexok /\ BadFrame(op.encrypted_hex.bytes)) =>
        /\ ~op.parsed.success /\ ~op.parsed.thrown
        /\ op.parsed.error \in {"too_short", "bad_markers"}
        /\ op.parsed.function_code = NoneInt
        /\ op.parsed.stage \in {"length", "markers"}
        /\ op.parsed.candidates = <<>>

C3_Witness ==
    /\ op.kind = "parse" /\ op.encrypted_hex.hexok
    /\ Len(op.encrypted_hex.bytes) >= MIN_PACKET_LEN
    /\ op.encrypted_hex.bytes[1] = HEADER
    /\ op.encrypted_hex.bytes[Len(op.encrypted_hex.bytes)] # TRAILER
    /\ op.parsed.error = "bad_markers"

\* C4 as stated: every successful parse has a second byte in '1'..'9' and so a
\* sequence number in 1..9
C4_SequenceOneToNine ==
    (op.kind = "parse" /\ op.parsed.success) =>
        /\ op.encrypted_hex.bytes[2] \in 49..57
        /\ op.parsed.sequence \in 1..9

\* C5: every candidate kept, and the function code of every successful result,
\* is the code its table decodes at offset 8 of the payload
C5_SelfConsistent ==
    (op.kind = "parse" /\ op.parsed.success) =>
        /\ \A i \in 1..Len(op.parsed.candidates) :
              LET c == op.parsed.candidates[i]
              IN  /\ c.code \in Codes(XOR_TABLE_MAP)
                  /\ UnpackH(XorAll(PayloadOf(op.encrypted_hex),
                                    TableOf(XOR_TABLE_MAP, c.code)), 8) = c.code
        /\ op.parsed.function_code = op.parsed.candidates[1].code
        /\ UnpackH(op.parsed.decrypted, 8) = op.parsed.function_code

C5_Witness ==
    /\ op.kind = "parse" /\ op.parsed.success
    /\ Len(op.parsed.candidates) >= 3

\* the registry entries that pass the gate on the payload of the last parse
PassingEntries ==
    {i \in 1..Len(XOR_TABLE_MAP) : GatePasses(PayloadOf(op.encrypted_hex), XOR_TABLE_MAP[i])}

EntryScore(i) == ScoreOf(PayloadOf(op.encrypted_hex), XOR_TABLE_MAP[i])

\* highest score, and registered first among the entries of that score
Winner(i) ==
    /\ i \in PassingEntries
    /\ \A j \in PassingEntries :
          EntryScore(j) < EntryScore(i) \/ (EntryScore(j) = EntryScore(i) /\ i <= j)

\* C6: on a framed payload parse reports classification failure exactly when no
\* registered table passes the gate, and otherwise selects the one candidate of
\* highest score, the first registered among equals
C6_ExactlyOneSelected ==
    (op.kind = "parse" /\ op.parsed.stage \in {"classify", "done"}
     /\ ByteTables(XOR_TABLE_MAP)) =>
        IF PassingEntries = {}
        THEN ~op.parsed.success /\ op.parsed.error = "unrecognized"
        ELSE /\ op.parsed.success /\ op.parsed.error = ""
             /\ \E i \in PassingEntries :
                   Winner(i) /\ op.parsed.function_code = XOR_TABLE_MAP[i].code

C6_Witness ==
    /\ op.kind = "parse" /\ op.parsed.success
    /\ Len(op.parsed.candidates) >= 2
    /\ op.parsed.candidates[1].score = op.parsed.candidates[2].score

\* C21: every candidate of a successful parse scored the 10 points for a
\* plausible first field exactly when the little-endian u32 its table decodes at
\* offset 0 of the payload is below 0x1000000
C21_BonusBelowSixteenM ==
    (op.kind = "parse" /\ op.parsed.success) =>
        \A i \in 1..Len(op.parsed.candidates) :
            LET c == op.parsed.candidates[i]
                entry == [code |-> c.code, table |-> TableOf(XOR_TABLE_MAP, c.code)]
                payload == PayloadOf(op.encrypted_hex)
                param1 == UnpackI(XorAll(payload, entry.table), 0)
            IN  c.score - ScoreRest(payload, entry)
                    = (IF param1 < 256 * 256 * 256 THEN 10 ELSE 0)

\* C7: the packets built with the sequence argument omitted carry 1,2,...,9,1,2,...
\* in that order, and the counter stays in 1..9
C7_SequenceCycles ==
    /\ sequence \in 1..9
    /\ (op.kind = "reconstruct" /\ op.seqArg = NoneInt /\ ~op.out.raised) =>
          /\ op.out.emitted = ((autoCalls - 1) % 9) + 1
          /\ op.out.packet[2] = 48 + op.out.emitted

C7_Witness ==
    /\ op.kind = "reconstruct" /\ op.seqArg = NoneInt /\ ~op.out.raised
    /\ autoCalls = 10 /\ op.out.emitted = 1

\* C9: reconstruct of a result that is no success, or whose function code has no
\* registered table, raises an error and returns no packet
C9_ReconstructRejects ==
    (op.kind = "reconstruct"
     /\ (~op.parsed.success \/ op.parsed.function_code \notin Codes(XOR_TABLE_MAP))) =>
        /\ op.out.raised /\ op.out.packet = <<>>
        /\ op.out.error = IF ~op.parsed.success THEN "failed_result"
                          ELSE "unknown_function_code"

C9_Witness ==
    /\ op.kind = "reconstruct" /\ op.parsed.success
    /\ op.parsed.function_code \notin Codes(XOR_TABLE_MAP)
    /\ op.out.error = "unknown_function_code"

\* C22: a reconstruct call that returns a packet with the sequence argument
\* omitted emits the counter's value and leaves its successor (current mod 9) + 1
\* in the counter; one with a sequence passed emits that sequence and leaves the
\* counter as it was
C22_AdvanceOnlyWhenOmitted ==
    [][(op'.kind = "reconstruct" /\ ~op'.out.raised) =>
          IF op'.seqArg = NoneInt
          THEN /\ op'.out.emitted = sequence
               /\ sequence' = (sequence % 9) + 1
          ELSE /\ op'.out.emitted = op'.seqArg
               /\ op'.out.packet[2] = 48 + op'.seqArg
               /\ sequence' = sequence]_vars

C22_Witness ==
    /\ op.kind = "reconstruct" /\ ~op.out.raised
    /\ op.seqArg = 5 /\ op.out.emitted = 5
    /\ autoCalls = 2 /\ sequence = 3

\* C11 as stated: every packet reconstruct returns starts with 0x23, carries a digit
\* '1'..'9' as its second byte, ends with 0x21 and holds at least 22 payload bytes
C11_RawPacketInvariant ==
    (op.kind = "reconstruct" /\ ~op.out.raised) =>
        LET y == op.out.packet
        IN  /\ Len(y) >= PAD_LEN + 3
            /\ y[1] = HEADER
            /\ y[2] \in 49..57
            /\ y[Len(y)] = TRAILER

\* C10 as stated: add_xor_table for a code already registered leaves that code's
\* table and display name as they were
C10_NoSilentOverwrite ==
    [][(op'.kind = "add" /\ op'.added.code \in Codes(XOR_TABLE_MAP)) =>
          /\ TableOf(XOR_TABLE_MAP', op'.added.code) = TableOf(XOR_TABLE_MAP, op'.added.code)
          /\ NameOf(FUNCTION_NAMES', op'.added.code) = NameOf(FUNCTION_NAMES, op'.added.code)]_vars

\* what _parse_plaintext makes of the rendering of the last parse result
Reparsed == parse_plaintext(FormatPlaintext(op.parsed.plaintext))

\* C12 as stated: the rendering of every successful parse result is accepted by
\* _parse_plaintext and gives back the function code, param1..param4 and the text
C12_PlaintextAccepted ==
    (op.kind = "parse" /\ op.parsed.success) =>
        /\ ~Reparsed.raised
        /\ Reparsed.data.function_code = op.parsed.function_code
        /\ Reparsed.data.core_data.param1 = op.parsed.core_data.param1
        /\ Reparsed.data.core_data.param2 = op.parsed.core_data.param2
        /\ Reparsed.data.core_data.param3 = op.parsed.core_data.param3
        /\ Reparsed.data.core_data.param4 = op.parsed.core_data.param4
        /\ op.parsed.plaintext.hasText =>
              /\ Reparsed.data.extended_data.hasText
              /\ Reparsed.data.extended_data.text = op.parsed.plaintext.text

\* C13 as stated: under the registry the class is loaded with, parse of the first
\* fixture succeeds and renders exactly the text the fixture expects
C13_GoldenMovePlaintext ==
    (op.kind = "parse" /\ op.encrypted_hex = Hex(GOLDEN_MOVE)
     /\ XOR_TABLE_MAP = InitialTableMap) =>
        /\ op.parsed.success
        /\ FormatPlaintext(op.parsed.plaintext) = GOLDEN_MOVE_EXPECTED

\* C14 as stated: under the registry the class is loaded with, parse of the NPC
\* fixture succeeds and renders exactly the text the fixture expects
C14_GoldenNpcPlaintext ==
    (op.kind = "parse" /\ op.encrypted_hex = Hex(GOLDEN_NPC)
     /\ XOR_TABLE_MAP = InitialTableMap) =>
        /\ op.parsed.success
        /\ FormatPlaintext(op.parsed.plaintext) = GOLDEN_NPC_EXPECTED

\* C15: on two hex texts extract_xor_table returns min(len(payload), len(plain))
\* values, the i-th being payload[i] XOR plain[i], the payload being the packet
\* without its two leading bytes and its last byte; nothing beyond the plaintext
C15_ExtractOverlapOnly ==
    (op.kind = "extract" /\ op.encrypted_hex.hexok /\ op.decrypted_hex.hexok) =>
        LET payload == PayloadOf(op.encrypted_hex)
            plain == op.decrypted_hex.bytes
            table == op.extracted.table
        IN  /\ ~op.extracted.raised
            /\ Len(table) = Min(Len(payload), Len(plain))
            /\ Len(table) <= Len(plain)
            /\ \A i \in 1..Len(table) : table[i] = ByteXor(payload[i], plain[i])

C15_Witness ==
    /\ op.kind = "extract" /\ op.encrypted_hex = Hex(GOLDEN_MOVE)
    /\ op.decrypted_hex = Hex(GOLDEN_MOVE_CORE)
    /\ Len(PayloadOf(op.encrypted_hex)) > Len(op.decrypted_hex.bytes)
    /\ op.extracted.table = MOVE_TABLE

-----------------------------------------------------------------------------
(* Properties of the capture loop *)

\* a loop thread still holds packet id
InFlight(id) == \E t \in 1..Len(loops) : loops[t].packet.id = id

\* C8 as stated: every packet pulled from the driver and no longer held by a loop
\* has been handed back exactly once, with the payload it came with
C8_ForwardedExactlyOnce ==
    /\ intact
    /\ \A id \in 1..pulled : ~InFlight(id) => sent[id] = 1

\* the packets the filter turns away: a target is set and the packet's process
\* id is unknown or another
TurnedAway(id) ==
    target_pid # NoneInt
        /\ (pulledInfo[id].pid = NoneInt \/ pulledInfo[id].pid # target_pid)

\* C20: of the packets pulled and no longer held, one the filter turns away was
\* handed back once with no call of _handle_packet, of the parser or of the
\* callback; every other one was handled; and the total counter counts the
\* handled ones only
C20_PidFilter ==
    /\ \A id \in 1..pulled :
          ~InFlight(id) =>
              IF TurnedAway(id)
              THEN /\ sent[id] = 1
                   /\ pulledInfo[id].handled = 0 /\ pulledInfo[id].parses = 0
                   /\ cbCalls[id] = 0
              ELSE pulledInfo[id].handled = 1
    /\ stats.total = Cardinality({id \in 1..pulled : pulledInfo[id].handled > 0})

-----------------------------------------------------------------------------
(* Properties of the sender *)

\* the threads that hold a sequence number they took and have not yet stored the
\* counter's next value
TakingSequence == {t \in 1..Len(callers) : callers[t].pc \in {"seq_read2", "seq_write"}}

\* C16: two reconstruct calls with the sequence omitted, running at once on the
\* one parser, take different numbers, and the value a call stores is the
\* successor of the counter as it stands, so that two calls advance it two steps
C16_SequenceProtected ==
    /\ \A t1, t2 \in TakingSequence : t1 # t2 => callers[t1].seq # callers[t2].seq
    /\ \A t \in TakingSequence : callers[t].pc = "seq_write" => callers[t].tmp = sequence

\* the threads inside self.socket.send(data)
InSocketSend == {t \in 1..Len(callers) : callers[t].pc = "in_send"}

\* C17: at no time are two threads inside socket.send on the sender's connection
C17_SocketWritesSerialized == Cardinality(InSocketSend) <= 1

\* C18: once stop_script() has been called on an executing script, its runner
\* begins no further send, wait or pass over a repeat block
C18_NoStepAfterStop == lateSteps = 0

\* the first line whose nesting is unmatched: an end with no repeat open, or a
\* repeat whose scan runs off the script; Len(lines) + 1 when there is none
RECURSIVE FirstUnmatched(_, _)
FirstUnmatched(lines, i) ==
    IF i > Len(lines) THEN i
    ELSE IF lines[i].kind = "end" THEN i
    ELSE IF lines[i].kind = "repeat"
    THEN LET scan == ScanBlock(lines, i + 1, 1, <<>>)
         IN  IF scan.closed THEN FirstUnmatched(lines, scan.i + 1) ELSE i
    ELSE FirstUnmatched(lines, i + 1)

\* the send lines above line i, outside every block
SendsAbove(lines, i) == Cardinality({k \in 1..(i - 1) : lines[k].kind = "send"})

\* C19: a send_script call on a script whose repeat/end nesting is unmatched
\* returns a script error, and no result of a command at or below the unmatched
\* line
C19_UnmatchedNestingReported ==
    LET c == callers[1]
    IN  (c.pc = "idle" /\ c.script # <<>> /\ ~WellNested(c.script)) =>
            /\ \E k \in 1..Len(c.results) : c.results[k].error = "script"
            /\ Cardinality({k \in 1..Len(c.results) : c.results[k].error # "script"})
                  <= SendsAbove(c.script, FirstUnmatched(c.script, 1))

\* the end line that closes the block whose first line is line i
RECURSIVE MatchingEnd(_, _, _)
MatchingEnd(lines, i, depth) ==
    IF i > Len(lines) THEN i
    ELSE IF lines[i].kind = "end" /\ depth = 1 THEN i
    ELSE MatchingEnd(lines, i + 1,
                     depth + (IF lines[i].kind = "repeat" THEN 1
                              ELSE IF lines[i].kind = "end" THEN -1 ELSE 0))

RECURSIVE Times(_, _)
Times(n, seq) == IF n <= 0 THEN <<>> ELSE seq \o Times(n - 1, seq)

\* the commands of a well-nested script, each block written out as often as its
\* count says
RECURSIVE Unrolled(_)
Unrolled(lines) ==
    IF lines = <<>> THEN <<>>
    ELSE IF Head(lines).kind = "send" THEN <<Head(lines).cmd>> \o Unrolled(Tail(lines))
    ELSE IF Head(lines).kind = "repeat"
    THEN LET e == MatchingEnd(lines, 2, 1)
         IN  Times(Head(lines).n, Unrolled(SubSeq(lines, 2, e - 1)))
                \o Unrolled(SubSeq(lines, e + 1, Len(lines)))
    ELSE Unrolled(Tail(lines))

\* every repeat line carries a count
Counted(lines) == \A k \in 1..Len(lines) : lines[k].kind = "repeat" => lines[k].n # NoneInt

\* a send_script call on a well-nested script has returned
ScriptReturned ==
    /\ callers[1].pc = "idle" /\ callers[1].script # <<>>
    /\ WellNested(callers[1].script) /\ Counted(callers[1].script)

\* C23: a send_script call returns; on a well-nested script it has then called
\* send_plaintext on each command line as often as the counts of the blocks around
\* it multiply to, in script order, and returns one result for each of these calls
C23_ScriptUnrolled ==
    /\ [](ScriptReturned =>
            /\ callers[1].attempts = Unrolled(callers[1].script)
            /\ Len(callers[1].results) = Len(callers[1].attempts))
    /\ (callers[1].pc # "idle") ~> (callers[1].pc = "idle")

C23_Witness ==
    /\ ScriptReturned /\ callers[1].script = SCRIPT_DEEP
    /\ Len(callers[1].results) = 9

-----------------------------------------------------------------------------
(* The text of the extended data, decoded by parse and encoded again by
   reconstruct *)

\* bytes.decode('gbk') with errors='strict' accepts b: every byte below 0x80 is a
\* character, every other byte starts an assigned double-byte code
RECURSIVE StrictGbk(_)
StrictGbk(b) ==
    IF b = <<>> THEN TRUE
    ELSE IF b[1] < 128 THEN StrictGbk(Tail(b))
    ELSE Len(b) >= 2 /\ GbkAssigned(b[1], b[2]) /\ StrictGbk(Tail(Tail(b)))

\* the bytes reconstruct puts after the 16-byte record for a parse result
ReEncoded(parsed) ==
    LET data == PadTo(SubSeq(parsed.decrypted, 1, CORE_LEN)
                      \o EncodedText(parsed.extended_data), PAD_LEN)
    IN  SubSeq(data, CORE_LEN + 1, Len(data))

\* C24: whenever parse succeeds on a packet whose decoded extended data is a valid
\* GBK byte string, the bytes reconstruct writes for the decoded text are those
\* extended-data bytes exactly
C24_TextRoundTrip ==
    (op.kind = "parse" /\ op.parsed.success /\ op.parsed.extended_data.present
        /\ StrictGbk(op.parsed.extended_data.raw_bytes))
    => ReEncoded(op.parsed) = op.parsed.extended_data.raw_bytes

-----------------------------------------------------------------------------
(* parse applied to what reconstruct built from fields *)

\* parse of the packet the last reconstruct call returned, under the registry
\* reconstruct used
ParsedBack == parse(Hex(op.out.packet), XOR_TABLE_MAP, FUNCTION_NAMES)

\* C25: whenever reconstruct builds a packet from fields carrying a registered
\* function code, parse of that packet succeeds, selects that code and returns the
\* same param1..param5
C25_ClassificationInverts ==
    (op.kind = "reconstruct" /\ ~op.fromParse /\ ~op.out.raised) =>
        /\ ParsedBack.success
        /\ ParsedBack.function_code = op.parsed.function_code
        /\ ParsedBack.core_data.param1 = op.parsed.core_data.param1
        /\ ParsedBack.core_data.param2 = op.parsed.core_data.param2
        /\ ParsedBack.core_data.param3 = op.parsed.core_data.param3
        /\ ParsedBack.core_data.param4 = op.parsed.core_data.param4
        /\ ParsedBack.core_data.param5 = op.parsed.core_data.param5

-----------------------------------------------------------------------------
(* reconstruct calls that are refused *)

\* the three refusals: a result that is no success, a function code without a
\* table, a text with a character GBK has no code for
Refused(parsed_data, map) ==
    \/ ~parsed_data.success
    \/ parsed_data.function_code \notin Codes(map)
    \/ /\ parsed_data.extended_data.present /\ parsed_data.extended_data.hasText
       /\ GbkEncodeRaises(parsed_data.extended_data.text)

\* C26: a reconstruct call on a failed result, on an unregistered function code or
\* on text that GBK cannot encode raises, and the step leaves the sequence counter,
\* the table registry and the name registry as they were
C26_RefusedCallChangesNothing ==
    [][(op'.kind = "reconstruct" /\ Refused(op'.parsed, XOR_TABLE_MAP)) =>
          /\ op'.out.raised
          /\ sequence' = sequence
          /\ XOR_TABLE_MAP' = XOR_TABLE_MAP
          /\ FUNCTION_NAMES' = FUNCTION_NAMES]_vars

\* a call with the sequence omitted is refused for its text after the counter has
\* advanced twice and a table has been added
C26_Witness ==
    /\ op.kind = "reconstruct" /\ op.seqArg = NoneInt
    /\ op.parsed.success /\ op.parsed.function_code \in Codes(XOR_TABLE_MAP)
    /\ Refused(op.parsed, XOR_TABLE_MAP)
    /\ op.out.raised /\ op.out.packet = <<>>
    /\ sequence = 3 /\ XOR_TABLE_MAP # InitialTableMap

-----------------------------------------------------------------------------
(* The interceptor's counters *)

RECURSIVE SumSeq(_)
SumSeq(q) == IF q = <<>> THEN 0 ELSE Head(q) + SumSeq(Tail(q))

\* the calls of _handle_packet that found an empty payload
EmptyHandled ==
    Cardinality({id \in 1..Len(pulledInfo) : pulledInfo[id].outcome = "empty"})

\* C27: the total counter is the sum of the parsed counter, the failed counter and
\* the number of handled packets with an empty payload; with a callback set, the
\* callback has been called once for each packet counted as parsed, at most once
\* for any packet, and never for a packet counted as failed
C27_CountersAgree ==
    /\ stats.total = stats.parsed + stats.failed + EmptyHandled
    /\ callback # "none" =>
          /\ SumSeq(cbCalls) = stats.parsed
          /\ \A id \in 1..Len(cbCalls) :
                /\ cbCalls[id] <= 1
                /\ pulledInfo[id].outcome = "failed" => cbCalls[id] = 0

-----------------------------------------------------------------------------
(* The sender's history and counters *)

\* history.append(result), then pop(0) beyond max_history
Recorded(h, result) ==
    IF Len(h) + 1 > MAX_HISTORY THEN Tail(Append(h, result)) ELSE Append(h, result)

SendsCounted(st) == st.total_sent + st.total_failed

LastResult(c) == c.results[Len(c.results)]

\* C28: the history never holds more than max_history results; a send_raw call
\* that returns without reaching the socket has added one to one counter and
\* appended its result, the oldest leaving when the history is full; a call that
\* reaches the socket adds one to one counter when the socket call ends and then
\* appends its result in the same way
C28_EveryCallRecorded ==
    /\ [](Len(history) <= MAX_HISTORY)
    /\ [][\A t \in 1..Len(callers) :
            /\ (callers[t].pc = "raw" /\ callers'[t].pc \notin {"raw", "in_send"}) =>
                  /\ SendsCounted(sendStats') = SendsCounted(sendStats) + 1
                  /\ history' = Recorded(history, LastResult(callers'[t]))
            /\ (callers[t].pc = "in_send" /\ callers'[t].pc = "history") =>
                  /\ SendsCounted(sendStats') = SendsCounted(sendStats) + 1
                  /\ history' = history
            /\ (callers[t].pc = "history" /\ callers'[t].pc # "history") =>
                  /\ sendStats' = sendStats
                  /\ history' = Recorded(history, LastResult(callers'[t]))]_vars

-----------------------------------------------------------------------------
(* Scripts started by send_script_async *)

\* the script threads that are started and have yet to enter run_script, or are
\* inside send_script
ScriptsPendingOrExecuting ==
    {t \in 1..Len(callers) :
        callers[t].kind = "script" /\ (callers[t].pc = "start" \/ Executing(callers[t]))}

\* C29: at no time does a sender have two script threads that are pending or
\* executing
C29_OneScriptAtATime == Cardinality(ScriptsPendingOrExecuting) <= 1

-----------------------------------------------------------------------------
(* Loops of one interceptor *)

\* the packets a loop took from the driver when start() had already made a later
\* loop: stop() had returned for the loop that took them
TakenByPreviousLoop ==
    {id \in 1..Len(pulledInfo) : pulledInfo[id].loop < pulledInfo[id].latest}

\* C30: a loop that stop() has returned for handles no further packet, also when
\* start() has been called again before that loop saw the flag down: no packet
\* taken by a previous loop reaches _handle_packet
C30_OneLoopHandles == \A id \in TakenByPreviousLoop : pulledInfo[id].handled = 0

====
